---- MODULE Spec2Model ----
(***************************************************************************)
(* Model of the modular build system of jitsi-meet-qt:                     *)
(*   modules/tools/optimize_build.py  BuildOptimizer (dependency graph,    *)
(*                                    build order, build of all modules)  *)
(*   modules/build_system.py          JitsiModularBuildSystem (the seven   *)
(*                                    stage pipeline full_build)           *)
(*   modules/tools/install_module.py, uninstall_module.py,                 *)
(*   verify_packages.py               the tools the pipeline calls         *)
(*   tools/version_control.py         VersionManager (versions, backups)   *)
(*                                                                         *)
(* Specifications:                                                         *)
(*   Spec       the program as shipped: the commands of build_system.py    *)
(*              main, full_build with the built-in dependency graph,       *)
(*              over a bounded set of user configurations, inherited       *)
(*              environments and tool outcomes;                            *)
(*   SpecOrder  calculate_build_order as a function of its inputs, over    *)
(*              every dependency graph on ModuleSet within MaxDeps;        *)
(*   SpecOrderFull  calculate_build_order under preference lists that      *)
(*              name every module;                                         *)
(*   SpecConfigure  repeated runs of the stage Configure Modules on one    *)
(*              project directory;                                         *)
(*   SpecRegistry, SpecRegistry2  install_module.py and                    *)
(*              uninstall_module.py on one registry, with one and with     *)
(*              two processes;                                             *)
(*   SpecUninstallAll  uninstall_all_modules;                              *)
(*   SpecConfig  load_build_config, load_optimization_config and           *)
(*              deep_merge_config over bounded documents;                  *)
(*   SpecVerify  verify_packages.py over a directory of archives;          *)
(*   SpecVersion  the calls of the version manager on one directory.       *)
(***************************************************************************)
EXTENDS Integers, Sequences, FiniteSets, TLC

(***************************************************************************)
(* Bounds of the model.                                                    *)
(***************************************************************************)
\* Largest number of dependencies a module of a SpecOrder graph declares.
MaxDeps == 2
\* Longest duplicate-free preference list (module_build_order) of SpecOrder.
MaxPrefLen == 2
\* Largest number of modules a user configuration of Spec disables.
MaxDisabled == 1
\* Largest scalar of a configuration document of SpecConfig.
MaxScalar == 2
\* Largest number of runs of verify_packages.py in a behaviour of SpecVerify.
MaxRuns == 2
\* Largest build number update_version counts up to in SpecVersion.
MaxBuild == 3

(***************************************************************************)
(* Generic helpers.                                                        *)
(***************************************************************************)
Range(s) == {s[i] : i \in 1..Len(s)}

Reverse(s) == [i \in 1..Len(s) |-> s[Len(s) + 1 - i]]

\* The duplicate-free sequences over S of length n.
InjSeqs(S, n) == {s \in [1..n -> S] : \A i, j \in 1..n : i # j => s[i] # s[j]}

\* Position (from 1) of the first occurrence of x in s; x occurs in s.
FirstPos(s, x) == CHOOSE i \in 1..Len(s) : s[i] = x /\ \A j \in 1..(i - 1) : s[j] # x

(***************************************************************************)
(* optimize_build.py : the dependency graph and the preference list.       *)
(***************************************************************************)
\* A dependency list that names "setting", which is no module.
create_dependency_graph_typo ==
    ("utils" :> {}) @@ ("settings" :> {"utils"}) @@ ("performance" :> {"utils"}) @@
    ("core" :> {"utils", "settings"}) @@ ("camera" :> {"utils"}) @@
    ("audio" :> {"utils"}) @@ ("network" :> {"utils", "settings"}) @@
    ("screenshare" :> {"utils"}) @@ ("chat" :> {"network", "utils"}) @@
    ("meeting" :> {"network", "utils"}) @@ ("ui" :> {"setting"})

\* create_dependency_graph: module name -> the names it depends on. The code
\* keeps lists; only membership of their elements is ever read (can_build).
create_dependency_graph ==
    ("utils" :> {}) @@ ("settings" :> {"utils"}) @@ ("performance" :> {"utils"}) @@
    ("core" :> {"utils", "settings"}) @@ ("camera" :> {"utils"}) @@
    ("audio" :> {"utils"}) @@ ("network" :> {"utils", "settings"}) @@
    ("screenshare" :> {"utils"}) @@ ("chat" :> {"network", "utils"}) @@
    ("meeting" :> {"network", "utils"}) @@ ("ui" :> {"settings"})

\* Insertion order of the keys of the dictionary above.
GraphKeyOrder ==
    <<"utils", "settings", "performance", "core", "camera", "audio", "network",
      "screenshare", "chat", "meeting", "ui">>

\* default_config["module_build_order"] of load_optimization_config.
DefaultModuleBuildOrder ==
    <<"utils", "settings", "performance", "core", "camera", "audio", "network",
      "screenshare", "chat", "meeting", "ui">>

\* The sort key given to a module that the preference list does not name.
AbsentKey == 999

(***************************************************************************)
(* build_system.py : the build configuration.                              *)
(***************************************************************************)
\* Keys of default_config["modules"] of load_build_config, in insertion order.
ConfigModuleOrder ==
    <<"core", "utils", "settings", "performance", "camera", "audio", "network",
      "ui", "chat", "screenshare", "meeting", "compatibility">>

ConfigModules == Range(ConfigModuleOrder)

\* The modules default_config marks required.
RequiredModules == {"core", "utils"}

\* load_build_config: the defaults overlaid by a user file that disables the
\* modules of `disabled` and sets the three stage switches.
load_build_config(disabled, optimizations, testing, packaging) ==
    [modules |-> [m \in ConfigModules |->
                     [enabled |-> m \notin disabled, required |-> m \in RequiredModules]],
     enable_optimizations |-> optimizations,
     enable_testing |-> testing,
     enable_packaging |-> packaging]

EnabledModules(config) == {m \in DOMAIN config.modules : config.modules[m].enabled}

(***************************************************************************)
(* State.                                                                  *)
(***************************************************************************)
VARIABLES
    build_config,       \* JitsiModularBuildSystem.build_config
    config_order,       \* optimization_config["module_build_order"]
    iterOrder,          \* iteration order of the set remaining_modules
    dependencies,       \* calculate_build_order: dependencies
    build_order,        \* calculate_build_order: build_order
    built_modules,      \* calculate_build_order: built_modules
    remaining_modules,  \* calculate_build_order: remaining_modules
    iterations,         \* completed iterations of the while loop
    warnings,           \* circular-dependency warnings printed
    lastReady,          \* `buildable` as first computed in the latest iteration
    forced,             \* modules appended by the forced branch
    pc,                 \* position of the control flow
    step,               \* full_build: index of the running step, 0 outside it
    executed,           \* full_build: <<[name, ok]>> of the steps that returned
    result,             \* full_build: "running", "pass" or "fail"
    report_written,     \* build_report.json has been written by this run
    successful_builds,  \* build_all_modules: successful_builds
    attempted,          \* build_all_modules: <<[module, ok]>> of build_module calls
    build_all_result    \* build_all_modules: "none", "pass" or "fail"

\* The installation prefix and the install/uninstall tool processes.
VARIABLES
    regDisk,            \* registry.json on disk: [state, modules]
    fs,                 \* the paths that exist under the install prefix
    procs,              \* the tool processes that run
    oneShot,            \* TRUE: every process runs a single command
    op,                 \* per process: the command it runs
    rpc,                \* per process: its position in the command
    loaded,             \* per process: `registry` of update_registry
    trace,              \* per process: the writes and hooks of its command
    outcome,            \* per process: how its latest command ended
    installedPaths,     \* per module: the paths its installations copied
    chain,              \* the latest install / uninstall / verify sequence
    faults              \* the I/O errors and kills so far

\* The process of build_system.py main, the configuration loaders, the
\* package verifier and uninstall_all_modules.
VARIABLES
    environ,            \* os.environ["JITSI_DISABLE_MODULES"], or Unset
    command,            \* args.command of build_system.py main
    exit_code,          \* <<what main returned>>, <<>> before
    op_failed,          \* a part of the command's operation has failed
    cfgBase,            \* deep_merge_config: `base` before the merge
    cfgFile,            \* the user configuration file: [state, doc]
    cfgLoaded,          \* what the loader returned: [state, config, warned]
    cfgAgain,           \* the loaded configuration merged with the file again
    archives,           \* per package archive of the directory: its content
    sidecars,           \* per package archive: its .sha256 file, or NoSidecar
    listing,            \* package_files of the running verification
    vpc,                \* verify_packages main: its position
    vresults,           \* verify_packages_directory: results
    vexit,              \* verify_packages main: <<its exit code>>, <<>> before
    verifications,      \* the verifications started so far
    tampered,           \* the archives changed since their sidecar was written
    batch               \* uninstall_all_modules: its progress

\* The files of the project directory that outlive a run.
VARIABLES
    pri,                \* modules.pri, modules.pri.backup, modules_optimized.pri
    version_file,       \* version_info.json: <<>> or <<the version information>>
    config_tree,        \* the files of the configuration directory
    backups,            \* backups/<name> for every backup name
    round_trip,         \* the create_backup a later restore_backup answers
    last_call           \* the last call of the version manager, its result

versionVars == <<version_file, config_tree, backups, round_trip, last_call>>

projVars == <<pri, versionVars>>

mainVars == <<environ, command, exit_code, op_failed>>

cfgVars == <<cfgBase, cfgFile, cfgLoaded, cfgAgain, projVars>>

pkgVars ==
    <<archives, sidecars, listing, vpc, vresults, vexit, verifications, tampered>>

toolVars == <<mainVars, cfgVars, pkgVars, batch>>

regVars ==
    <<regDisk, fs, procs, oneShot, op, rpc, loaded, trace, outcome,
      installedPaths, chain,
      faults>>

vars ==
    <<build_config, config_order, iterOrder, dependencies, build_order,
      built_modules, remaining_modules, iterations, warnings, lastReady, forced,
      pc, step, executed, result, report_written, successful_builds, attempted,
      build_all_result, regVars, toolVars>>

schedVars ==
    <<dependencies, build_order, built_modules, remaining_modules, iterations,
      warnings, lastReady, forced>>

buildVars == <<successful_builds, attempted, build_all_result>>

buildSysVars == <<schedVars, buildVars, pc, step, executed, result, report_written>>

pipeVars == <<step, executed, result, report_written>>

inputVars == <<build_config, config_order, iterOrder>>

(***************************************************************************)
(* install_module.py, uninstall_module.py : names, packages, registry.     *)
(* Names are sequences of characters, so that the glob patterns of the     *)
(* tools are matched as the tools match them.                              *)
(***************************************************************************)
Settings == <<"s", "e", "t", "t", "i", "n", "g", "s">>

Ui == <<"u", "i">>

RegistryModules == {Settings, Ui}

\* The key of a module name in create_dependency_graph.
GraphKey(name) == IF name = Ui THEN "ui" ELSE "settings"

\* The modules that the module `name` declares as dependencies.
DeclaredDeps(name) ==
    {n \in RegistryModules : GraphKey(n) \in create_dependency_graph[GraphKey(name)]}

LibSettings == <<"l", "i", "b", "s", "e", "t", "t", "i", "n", "g", "s", ".", "s", "o">>

LibUi == <<"l", "i", "b", "u", "i", ".", "s", "o">>

\* A library whose name holds "ui" and does not hold "settings".
LibQuick == <<"l", "i", "b", "q", "u", "i", "c", "k", ".", "s", "o">>

\* fnmatch of a pattern of literal characters and "*".
RECURSIVE GlobMatch(_, _)
GlobMatch(pat, s) ==
    IF pat = <<>> THEN s = <<>>
    ELSE IF Head(pat) = "*"
         THEN GlobMatch(Tail(pat), s) \/ (s # <<>> /\ GlobMatch(pat, Tail(s)))
         ELSE s # <<>> /\ Head(s) = Head(pat) /\ GlobMatch(Tail(pat), Tail(s))

\* f"lib{module_name}*.so*"
LibPatternPrefix(name) == <<"l", "i", "b">> \o name \o <<"*", ".", "s", "o", "*">>

\* f"lib*{module_name}*.so*"
LibPatternInfix(name) == <<"l", "i", "b", "*">> \o name \o <<"*", ".", "s", "o", "*">>

\* f"*{module_name}*"
AnyPattern(name) == <<"*">> \o name \o <<"*">>

\* "lib*.so*" of validate_module
PackageLibPattern == <<"l", "i", "b", "*", ".", "s", "o", "*">>

\* A path under the install prefix: include/jitsi-qt/<name>, lib/<name>,
\* share/jitsi-qt/modules/<name>.pri, share/jitsi-qt/resources/<name>,
\* lib/jitsi-qt/plugins/<name>.
Path(dir, name) == [dir |-> dir, name |-> name]

\* The packages the model installs: an extracted module directory with its
\* .pri file (whose stem is the module name), libraries, headers, resources
\* and post-install script; `defect` is "missing" for a package path that
\* does not exist and "nopri" for a package without .pri file.
Pkg(name, libs, headers, resources, hook, defect) ==
    [name |-> name, libs |-> libs, headers |-> headers, resources |-> resources,
     hook |-> hook, defect |-> defect]

PkgSettings == Pkg(Settings, <<LibSettings>>, TRUE, TRUE, TRUE, "none")

PkgSettingsQuick == Pkg(Settings, <<LibQuick>>, FALSE, FALSE, FALSE, "none")

PkgUi == Pkg(Ui, <<LibUi>>, TRUE, FALSE, FALSE, "none")

PkgMissing == Pkg(Ui, <<>>, FALSE, FALSE, FALSE, "missing")

PkgNoPri == Pkg(Ui, <<LibUi>>, TRUE, FALSE, FALSE, "nopri")

Packages == {PkgSettings, PkgSettingsQuick, PkgUi, PkgMissing, PkgNoPri}

NoPkg == Pkg(<<>>, <<>>, FALSE, FALSE, FALSE, "none")

\* validate_module: the module_info of a package (the version is always
\* "1.0.0"; the libraries are the files that match lib*.so*).
validate_module(pkg) ==
    [name |-> pkg.name,
     version |-> "1.0.0",
     headers |-> pkg.headers,
     libraries |-> SelectSeq(pkg.libs, LAMBDA l : GlobMatch(PackageLibPattern, l))]

\* The registry document: absent, valid, or partly written (unparsable).
RegistryDoc(state, modules) == [state |-> state, modules |-> modules]

NoModules == [n \in {} |-> 0]

AbsentRegistry == RegistryDoc("absent", NoModules)

\* A document that does not parse is read as the default document.
load_registry_lenient(disk) ==
    [raised |-> FALSE,
     modules |-> IF disk.state = "valid" THEN disk.modules ELSE NoModules]

\* load_registry: the default document when the file is absent; json.load
\* raises on a document that does not parse.
load_registry(disk) ==
    [raised |-> disk.state = "partial",
     modules |-> IF disk.state = "valid" THEN disk.modules ELSE NoModules]

\* The document holds the new record only.
RegistryOnly(modules, info) ==
    [n \in {info.name} |->
        [version |-> info.version, headers |-> info.headers,
         libraries |-> info.libraries]]

\* update_registry of the installer: registry["modules"][name] = {...}
RegistryWith(modules, info) ==
    [n \in DOMAIN modules \cup {info.name} |->
        IF n = info.name
        THEN [version |-> info.version, headers |-> info.headers,
              libraries |-> info.libraries]
        ELSE modules[n]]

\* The record stays in the document.
RegistryKeeps(modules, name) == modules

\* update_registry of the uninstaller: del registry["modules"][module_name]
RegistryWithout(modules, name) == [n \in DOMAIN modules \ {name} |-> modules[n]]

\* The modules of the registry that declare `name` as a dependency.
DeclaredDependents(modules, name) ==
    {b \in DOMAIN modules : b # name /\ name \in DeclaredDeps(b)}

\* check_dependencies of the uninstaller: always the empty list.
check_dependencies(modules, name) == {}

\* install_files: the paths written, in the order they are written.
InstallTargets(info, pkg) ==
    (IF info.headers THEN <<Path("include", info.name)>> ELSE <<>>)
    \o [i \in 1..Len(info.libraries) |-> Path("lib", info.libraries[i])]
    \o <<Path("modules", info.name)>>
    \o (IF pkg.resources THEN <<Path("resources", info.name)>> ELSE <<>>)

\* The names of directory `dir` that match the pattern.
Matching(files, dir, pat) == {f \in files : f.dir = dir /\ GlobMatch(pat, f.name)}

\* Every ordering of a set of at most three paths.
Orderings(S) ==
    {q \in [1..Cardinality(S) -> S] : \A i, j \in 1..Cardinality(S) : i # j => q[i] # q[j]}

\* remove_module_files: the sequences of paths it deletes, one per order in
\* which the globs can list the directory.
RemovalTargets(files, name) ==
    LET hdr == IF Path("include", name) \in files THEN <<Path("include", name)>> ELSE <<>>
        first == Matching(files, "lib", LibPatternPrefix(name))
        second == Matching(files, "lib", LibPatternInfix(name)) \ first
        cfg == IF Path("modules", name) \in files THEN <<Path("modules", name)>> ELSE <<>>
        res == IF Path("resources", name) \in files
               THEN <<Path("resources", name)>> ELSE <<>>
        plug == Matching(files, "plugins", AnyPattern(name))
    IN  {hdr \o a \o b \o cfg \o res \o c :
            a \in Orderings(first), b \in Orderings(second), c \in Orderings(plug)}

\* verify_uninstallation: the remaining_files it finds.
RemainingFiles(files, name) ==
    {f \in files : f \in {Path("include", name), Path("modules", name),
                           Path("resources", name)}}
    \cup Matching(files, "lib", AnyPattern(name))

(***************************************************************************)
(* optimize_build.py : calculate_build_order.                              *)
(***************************************************************************)
\* `any` where the code has `all`.
can_build_any(module, deps, built) == \E dep \in deps[module] : dep \in built

\* can_build: every dependency of the module has been built.
can_build(module, deps, built) == \A dep \in deps[module] : dep \in built

\* Every remaining module is taken as buildable.
BuildableAll(deps, remaining, built, order) ==
    SelectSeq(order, LAMBDA m : m \in remaining)

\* [m for m in remaining_modules if can_build(m)], in the set's iteration order.
Buildable(deps, remaining, built, order) ==
    SelectSeq(order, LAMBDA m : m \in remaining /\ can_build(m, deps, built))

\* No fallback when nothing is buildable.
ForceNone(remaining, order) == <<>>

\* list(remaining_modules)[:1]
ForceOne(remaining, order) ==
    SubSeq(SelectSeq(order, LAMBDA m : m \in remaining), 1, 1)

\* Every module sorts with the key of an absent one.
SortKeyFlat(x, order) == AbsentKey

\* The key of buildable.sort: config_order.index(x) (from 0) or 999.
SortKey(x, order) ==
    IF \E i \in 1..Len(order) : order[i] = x THEN FirstPos(order, x) - 1 ELSE AbsentKey

\* Insertion of x behind every element whose key is not larger (stable).
RECURSIVE InsertByKey(_, _, _)
InsertByKey(sorted, x, order) ==
    IF sorted = <<>> THEN <<x>>
    ELSE IF SortKey(Head(sorted), order) <= SortKey(x, order)
         THEN <<Head(sorted)>> \o InsertByKey(Tail(sorted), x, order)
         ELSE <<x>> \o sorted

\* buildable.sort(key=...): a stable sort by SortKey.
RECURSIVE SortByKey(_, _)
SortByKey(s, order) ==
    IF s = <<>> THEN <<>>
    ELSE InsertByKey(SortByKey(SubSeq(s, 1, Len(s) - 1), order), s[Len(s)], order)

\* Every module of the batch leaves the set, not only the one appended.
RemoveBatch(remaining, module, buildable) == remaining \ Range(buildable)

\* remaining_modules.remove(module)
RemoveBuilt(remaining, module, buildable) == remaining \ {module}

\* calculate_build_order from the state (build_order, built_modules,
\* remaining_modules) on, as a function of the graph, the preference list
\* and the iteration order of the set; the order so far when buildable[0]
\* raises.
RECURSIVE calculate_build_order_from(_, _, _, _, _, _)
calculate_build_order_from(deps, pref, iter, order, built, remaining) ==
    IF remaining = {} THEN order
    ELSE LET ready == Buildable(deps, remaining, built, iter)
             buildable == IF ready = <<>> THEN ForceOne(remaining, iter) ELSE ready
             sorted == SortByKey(buildable, pref)
         IN  IF sorted = <<>> THEN order
             ELSE calculate_build_order_from(deps, pref, iter,
                      Append(order, sorted[1]), built \cup {sorted[1]},
                      RemoveBuilt(remaining, sorted[1], buildable))

\* calculate_build_order: what it returns.
calculate_build_order(deps, pref, iter) ==
    calculate_build_order_from(deps, pref, iter, <<>>, {}, DOMAIN deps)

\* One iteration of `while remaining_modules`. An empty `buildable` would make
\* buildable[0] raise IndexError.
CalcStep ==
    /\ pc = "calc_loop"
    /\ remaining_modules # {}
    /\ LET ready == Buildable(dependencies, remaining_modules, built_modules, iterOrder)
           buildable == IF ready = <<>> THEN ForceOne(remaining_modules, iterOrder)
                                       ELSE ready
           sorted == SortByKey(buildable, config_order)
       IN  /\ lastReady' = ready
           /\ warnings' = IF ready = <<>> THEN warnings + 1 ELSE warnings
           /\ iterations' = iterations + 1
           /\ IF sorted = <<>>
              THEN /\ pc' = "raised"
                   /\ UNCHANGED <<build_order, built_modules, remaining_modules, forced>>
              ELSE /\ pc' = pc
                   /\ build_order' = Append(build_order, sorted[1])
                   /\ built_modules' = built_modules \cup {sorted[1]}
                   /\ remaining_modules' =
                          RemoveBuilt(remaining_modules, sorted[1], buildable)
                   /\ forced' = IF ready = <<>> THEN forced \cup {sorted[1]} ELSE forced
    /\ UNCHANGED <<dependencies, inputVars, toolVars, regVars, pipeVars, buildVars>>

\* `return build_order`: to build_all_modules inside the Build Modules step,
\* else to a direct caller.
CalcReturn ==
    /\ pc = "calc_loop"
    /\ remaining_modules = {}
    /\ pc' = IF step = 3 THEN "build_loop" ELSE "returned"
    /\ UNCHANGED <<schedVars, inputVars, toolVars, regVars, pipeVars, buildVars>>

(***************************************************************************)
(* tools/version_control.py : VersionManager.                              *)
(* The version information is the record of the application version, its   *)
(* build number and the version of one module (audio); the other modules   *)
(* are handled as audio is. A backup is a directory with the copy of        *)
(* version_info.json, if one was made, and the copied configuration files.  *)
(***************************************************************************)
Versions == {"2.0.0", "2.1.0"}

VersionInfo(version, build_number, audio) ==
    [version |-> version, build_number |-> build_number, audio |-> audio]

\* _create_default_version_info
DefaultVersion == VersionInfo("2.0.0", 1, "2.0.0")

\* get_current_version: the content of version_info.json, or the default
\* information when the file does not exist.
get_current_version(file) == IF file = <<>> THEN DefaultVersion ELSE file[1]

\* get_current_version writes the default information when version_info.json
\* does not exist, _save_version_info writes what it is given.
Saved(info) == <<info>>

\* The names given to backups; restore_backup keeps the state before a
\* restore under the name pre_restore_backup.
PreRestoreName == "pre_restore_backup"

BackupNames == {"nightly", PreRestoreName}

\* The files that may stand in the configuration directory.
ConfigFileNames == {"app.conf"}

NoBackup == [exists |-> FALSE, version_info |-> <<>>, tree |-> {}]

\* The files of the version manager: version_info.json, the configuration
\* directory and the directory backups.
VersionFiles(file, tree, saved) == [file |-> file, tree |-> tree, saved |-> saved]

\* create_backup: backups/<name> is made if it does not exist,
\* version_info.json is copied into it if it exists, the configuration
\* directory is copied over what the backup holds, and backup_info.json is
\* written from get_current_version, which creates version_info.json if it
\* does not exist.
create_backup(d, name) ==
    LET old == d.saved[name]
        new == [exists |-> TRUE,
                version_info |-> IF d.file # <<>> THEN d.file ELSE old.version_info,
                tree |-> old.tree \cup d.tree]
    IN  VersionFiles(Saved(get_current_version(d.file)), d.tree,
                     [d.saved EXCEPT ![name] = new])

\* restore_backup on an existing backup: the state is first saved as
\* pre_restore_backup, then version_info.json is copied back if the backup
\* holds one and the configuration directory is replaced by the backed up one.
restore_backup(d, name) ==
    LET saved == create_backup(d, PreRestoreName)
        from == saved.saved[name]
    IN  VersionFiles(IF from.version_info # <<>> THEN from.version_info ELSE saved.file,
                     from.tree, saved.saved)

\* The files as the variables hold them.
Disk == VersionFiles(version_file, config_tree, backups)

NoRoundTrip == [name |-> "none", info |-> DefaultVersion, stage |-> "none"]

NoCall == [op |-> "none", ok |-> TRUE, changed |-> FALSE]

VersionIdle ==
    /\ version_file = <<>>
    /\ config_tree = {}
    /\ backups = [n \in BackupNames |-> NoBackup]
    /\ round_trip = NoRoundTrip
    /\ last_call = NoCall

\* The files after a call.
Written(d) ==
    /\ version_file' = d.file
    /\ config_tree' = d.tree
    /\ backups' = d.saved

\* What the call has left of the round trip: update_version keeps it, every
\* other call ends it.
Kept(call) ==
    IF call = "update" /\ round_trip.stage = "backed" THEN round_trip ELSE NoRoundTrip

OtherVars == <<pri, mainVars, cfgBase, cfgFile, cfgLoaded, cfgAgain, pkgVars, batch>>

\* create_backup(name)
CreateBackup ==
    \E name \in BackupNames :
        /\ Written(create_backup(Disk, name))
        /\ round_trip' = [name |-> name, info |-> get_current_version(version_file),
                          stage |-> "backed"]
        /\ last_call' = [op |-> "create", ok |-> TRUE, changed |-> TRUE]
        /\ UNCHANGED <<OtherVars, regVars, buildSysVars, inputVars>>

\* update_version(component, new_version): the application version with the
\* next build number, the version of a module, or ValueError for a
\* component that is neither; get_current_version has then written the
\* default information if there was no file.
UpdateVersion ==
    \E component \in {"application", "audio", "nosuch"}, new_version \in Versions :
        LET info == get_current_version(version_file)
        IN  /\ component = "application" => info.build_number < MaxBuild
            /\ version_file' =
                  IF component = "application"
                  THEN Saved([info EXCEPT !.version = new_version,
                                          !.build_number = @ + 1])
                  ELSE IF component = "audio"
                  THEN Saved([info EXCEPT !.audio = new_version])
                  ELSE Saved(info)
            /\ round_trip' = Kept("update")
            /\ last_call' = [op |-> "update", ok |-> component # "nosuch",
                             changed |-> version_file' # version_file]
            /\ UNCHANGED <<config_tree, backups>>
            /\ UNCHANGED <<OtherVars, regVars, buildSysVars, inputVars>>

\* restore_backup(name): False and nothing done if backups/<name> does not
\* exist, else the restore.
RestoreBackup ==
    \E name \in BackupNames :
        /\ IF ~backups[name].exists
           THEN /\ UNCHANGED <<version_file, config_tree, backups>>
                /\ round_trip' = NoRoundTrip
                /\ last_call' = [op |-> "restore_missing", ok |-> FALSE, changed |-> FALSE]
           ELSE /\ Written(restore_backup(Disk, name))
                /\ round_trip' =
                      IF round_trip.name = name /\ round_trip.stage = "backed"
                      THEN [round_trip EXCEPT !.stage = "restored"]
                      ELSE NoRoundTrip
                /\ last_call' = [op |-> "restore", ok |-> TRUE,
                                 changed |-> restore_backup(Disk, name) # Disk]
        /\ UNCHANGED <<OtherVars, regVars, buildSysVars, inputVars>>

\* delete_backup(name)
DeleteBackup ==
    \E name \in BackupNames :
        /\ backups' = [backups EXCEPT ![name] = NoBackup]
        /\ round_trip' = NoRoundTrip
        /\ last_call' = [op |-> "delete", ok |-> backups[name].exists,
                         changed |-> backups[name].exists]
        /\ UNCHANGED <<version_file, config_tree>>
        /\ UNCHANGED <<OtherVars, regVars, buildSysVars, inputVars>>

\* The user adds or removes a file of the configuration directory.
EditConfig ==
    \E f \in ConfigFileNames :
        /\ config_tree' = IF f \in config_tree THEN config_tree \ {f}
                          ELSE config_tree \cup {f}
        /\ UNCHANGED <<version_file, backups, round_trip, last_call>>
        /\ UNCHANGED <<OtherVars, regVars, buildSysVars, inputVars>>

(***************************************************************************)
(* build_system.py : full_build.                                           *)
(***************************************************************************)
\* The names of `steps`, in order.
StepNames ==
    <<"Setup Environment", "Configure Modules", "Build Modules", "Run Tests",
      "Create Packages", "Verify Packages", "Create Distribution">>

\* The loop goes on to the next step whatever the step returned.
StopsNever(ok) == FALSE

\* `if not step_func():` the step's failure ends full_build.
StopsPipeline(ok) == ~ok

\* The report is written whenever full_build returns.
ReportOnReturn(passed) == TRUE

\* full_build writes build_report.json behind the loop, which a failed
\* step leaves with `return False`.
ReportOnPass(passed) == passed

\* The body of `for step_name, step_func in steps` once step_func() has
\* returned `ok`: return False at a failure; after the last step write
\* build_report.json and return True.
StepReturns(ok) ==
    /\ executed' = Append(executed, [name |-> StepNames[step], ok |-> ok])
    /\ IF StopsPipeline(ok)
       THEN /\ result' = "fail"
            /\ pc' = "done"
            /\ report_written' = (report_written \/ ReportOnPass(FALSE))
            /\ UNCHANGED step
       ELSE IF step = Len(StepNames)
            THEN /\ result' = "pass"
                 /\ pc' = "done"
                 /\ report_written' = (report_written \/ ReportOnPass(TRUE))
                 /\ UNCHANGED step
            ELSE /\ step' = step + 1
                 /\ pc' = "step"
                 /\ UNCHANGED <<result, report_written>>

\* setup_build_environment: fails when the optimize_build tool fails.
SetupEnvironment ==
    /\ pc = "step" /\ step = 1
    /\ \E ok \in BOOLEAN : StepReturns(ok)
    /\ UNCHANGED <<schedVars, inputVars, toolVars, regVars, buildVars>>

\* JITSI_DISABLE_MODULES is not in the environment.
Unset == <<>>

\* ",".join(disabled_modules) as the value of the variable.
EnvValue(disabled_modules) == <<disabled_modules>>

\* `if disabled_modules: os.environ["JITSI_DISABLE_MODULES"] = ...`
environ_after(env, disabled_modules) ==
    IF disabled_modules # <<>> THEN EnvValue(disabled_modules) ELSE env

\* The files modules.pri, modules.pri.backup and modules_optimized.pri:
\* the content of the first two ("absent", "original" as checked out, or
\* "optimized", a copy of modules_optimized.pri) and whether the third
\* exists; `first` remembers modules.pri as it was before the first run.
PriFiles(target, backup, optimized, first) ==
    [target |-> target, backup |-> backup, optimized |-> optimized, first |-> first]

\* target_pri.rename(backup_file) meets an existing backup file.
RenameOntoExisting(f) == f.optimized /\ f.target # "absent" /\ f.backup # "absent"

\* configure_modules, `if optimized_pri.exists():` modules.pri is renamed
\* to modules.pri.backup when it exists, then modules_optimized.pri is
\* copied to modules.pri.
configure_files(f) ==
    IF ~f.optimized THEN f
    ELSE [f EXCEPT !.backup = IF f.target # "absent" THEN f.target ELSE @,
                   !.target = "optimized"]

\* configure_modules: the files of the optimized configuration, then the
\* disabled modules in the order of the configuration go into the
\* environment; it returns True. Path.rename onto an existing file replaces
\* it on POSIX and raises FileExistsError on Windows; the exception leaves
\* full_build, which ends the run as failed at this step.
ConfigureModules ==
    /\ pc = "step" /\ step = 2
    /\ \E replaces \in BOOLEAN :
          IF RenameOntoExisting(pri) /\ ~replaces
          THEN /\ UNCHANGED <<pri, environ>>
               /\ StepReturns(FALSE)
          ELSE /\ pri' = configure_files(pri)
               /\ LET disabled_modules ==
                         SelectSeq(ConfigModuleOrder,
                                   LAMBDA m : ~build_config.modules[m].enabled)
                   IN  environ' = environ_after(environ, disabled_modules)
               /\ StepReturns(TRUE)
    /\ UNCHANGED <<command, exit_code, op_failed, pkgVars, batch>>
    /\ UNCHANGED <<cfgBase, cfgFile, cfgLoaded, cfgAgain, versionVars>>
    /\ UNCHANGED <<schedVars, inputVars, regVars, buildVars>>

\* build_modules without optimizations: build_standard (qmake, make).
BuildStandard ==
    /\ pc = "step" /\ step = 3
    /\ ~build_config.enable_optimizations
    /\ \E ok \in BOOLEAN : StepReturns(ok)
    /\ UNCHANGED <<schedVars, inputVars, toolVars, regVars, buildVars>>

\* build_modules with optimizations: run_tool returns False when the tool
\* script is missing.
BuildToolMissing ==
    /\ pc = "step" /\ step = 3
    /\ build_config.enable_optimizations
    /\ StepReturns(FALSE)
    /\ UNCHANGED <<schedVars, inputVars, toolVars, regVars, buildVars>>

\* build_modules with optimizations: optimize_build.py build enters
\* build_all_modules, which starts calculate_build_order.
BuildAllStart ==
    /\ pc = "step" /\ step = 3
    /\ build_config.enable_optimizations
    /\ dependencies' = create_dependency_graph
    /\ build_order' = <<>>
    /\ built_modules' = {}
    /\ remaining_modules' = DOMAIN create_dependency_graph
    /\ pc' = "calc_loop"
    /\ UNCHANGED <<iterations, warnings, lastReady, forced, inputVars, toolVars, regVars, pipeVars,
                   buildVars>>

\* The loop goes on after a module failed to build.
BreaksNever(ok) == FALSE

\* build_all_modules: `else: ... break` when build_module returned False.
BreaksLoop(ok) == ~ok

\* build_all_modules: one iteration of `for module_name in build_order`.
\* build_module fails when the directory or the .pri file is missing or
\* qmake or make fails.
BuildModule ==
    /\ pc = "build_loop"
    /\ Len(attempted) < Len(build_order)
    /\ \E ok \in BOOLEAN :
          /\ attempted' =
                Append(attempted, [module |-> build_order[Len(attempted) + 1], ok |-> ok])
          /\ successful_builds' = IF ok THEN successful_builds + 1 ELSE successful_builds
          /\ pc' = IF BreaksLoop(ok) THEN "build_end" ELSE "build_loop"
    /\ UNCHANGED <<build_all_result, schedVars, inputVars, toolVars, regVars, pipeVars>>

\* build_all_modules: `return successful_builds == len(build_order)`; main
\* exits 0 exactly then, and run_tool hands that to full_build.
BuildAllReturn ==
    /\ \/ pc = "build_end"
       \/ pc = "build_loop" /\ Len(attempted) = Len(build_order)
    /\ LET ok == successful_builds = Len(build_order)
       IN  /\ build_all_result' = IF ok THEN "pass" ELSE "fail"
           /\ StepReturns(ok)
    /\ UNCHANGED <<successful_builds, attempted, schedVars, inputVars, toolVars, regVars>>

\* run_tests: True when testing is disabled, else False when a test failed.
RunTests ==
    /\ pc = "step" /\ step = 4
    /\ \E ok \in BOOLEAN :
          /\ ~build_config.enable_testing => ok
          /\ StepReturns(ok)
    /\ UNCHANGED <<schedVars, inputVars, toolVars, regVars, buildVars>>

\* create_distribution: the outcome of make create_distribution.
CreateDistribution ==
    /\ pc = "step" /\ step = 7
    /\ \E ok \in BOOLEAN : StepReturns(ok)
    /\ UNCHANGED <<schedVars, inputVars, toolVars, regVars, buildVars>>

(***************************************************************************)
(* build_system.py : deep_merge_config and the configuration loaders.      *)
(* A JSON value is <<"scalar", n>>, <<"list", sequence>> or <<"map", f>>   *)
(* with f a function from keys to values; a document is such a function.   *)
(***************************************************************************)
Scalar(n) == <<"scalar", n>>

List(q) == <<"list", q>>

Map(f) == <<"map", f>>

\* isinstance(v, dict)
IsMap(v) == v[1] = "map"

\* The functions from a subset of the keys K to the values V.
MapsOver(K, V) == UNION {[D -> V] : D \in SUBSET K}

Scalars == {Scalar(n) : n \in 1..MaxScalar}

Leaves == Scalars \cup {List(<<1, 2>>), List(<<3>>)}

\* The values of a module entry: {"enabled": ...}.
ModuleEntries == {Map(f) : f \in MapsOver({"enabled"}, Scalars)}

\* The values of "modules": {"core": ..., "utils": ...}.
ModuleTables ==
    {Map(f) : f \in {g \in MapsOver({"core", "utils"}, Leaves \cup ModuleEntries) :
                        "utils" \in DOMAIN g => g["utils"] \in Leaves}}

\* The configuration documents of the model.
Documents ==
    {f \in MapsOver({"modules", "build_type"}, Leaves \cup ModuleTables) :
        "build_type" \in DOMAIN f => f["build_type"] \in Leaves}

\* The merge never recurses: dict.update.
RecursesNever(base, key, value) == FALSE

\* `key in base and isinstance(base[key], dict) and isinstance(value, dict)`
Recurses(base, key, value) == key \in DOMAIN base /\ IsMap(base[key]) /\ IsMap(value)

\* A list of the user document is appended to the list of the base.
AssignedAppended(base, key, value) ==
    IF key \in DOMAIN base /\ base[key][1] = "list" /\ value[1] = "list"
    THEN List(base[key][2] \o value[2])
    ELSE value

\* `base[key] = value`
Assigned(base, key, value) == value

\* deep_merge_config: `base` after the call.
RECURSIVE deep_merge_config(_, _)
deep_merge_config(base, update) ==
    [key \in DOMAIN base \cup DOMAIN update |->
        IF key \notin DOMAIN update THEN base[key]
        ELSE IF Recurses(base, key, update[key])
             THEN Map(deep_merge_config(base[key][2], update[key][2]))
             ELSE Assigned(base, key, update[key])]

\* default_config.update(user_config) of load_optimization_config.
dict_update(base, update) ==
    [key \in DOMAIN base \cup DOMAIN update |->
        IF key \in DOMAIN update THEN update[key] ELSE base[key]]

NoDocument == [key \in {} |-> Scalar(1)]

\* A configuration file: absent, unparsable, or a document.
ConfigFile(state, doc) == [state |-> state, doc |-> doc]

ConfigFiles ==
    {ConfigFile("absent", NoDocument), ConfigFile("unparsable", NoDocument)}
    \cup {ConfigFile("valid", d) : d \in Documents}

\* What a loader returned.
Loaded(loader, state, config, warned) ==
    [loader |-> loader, state |-> state, config |-> config, warned |-> warned]

NotLoaded == Loaded("none", "none", NoDocument, FALSE)

\* The exception of json.load leaves the loader.
load_user_config_strict(default, file) ==
    IF file.state = "unparsable" THEN Loaded("build", "raised", NoDocument, FALSE)
    ELSE IF file.state = "absent" THEN Loaded("build", "loaded", default, FALSE)
    ELSE Loaded("build", "loaded", deep_merge_config(default, file.doc), FALSE)

\* load_build_config from `if config_file.exists():` on: the defaults when
\* the file is absent, a warning when json.load raises, else the merge.
load_user_config(default, file) ==
    IF file.state = "absent" THEN Loaded("build", "loaded", default, FALSE)
    ELSE IF file.state = "unparsable" THEN Loaded("build", "loaded", default, TRUE)
    ELSE Loaded("build", "loaded", deep_merge_config(default, file.doc), FALSE)

\* load_optimization_config from `if config_file.exists():` on.
load_optimization_config(default, file) ==
    IF file.state = "absent" THEN Loaded("optimization", "loaded", default, FALSE)
    ELSE IF file.state = "unparsable" THEN Loaded("optimization", "loaded", default, TRUE)
    ELSE Loaded("optimization", "loaded", dict_update(default, file.doc), FALSE)

NotMerged == [done |-> FALSE, config |-> NoDocument]

\* JitsiModularBuildSystem.__init__: self.build_config = load_build_config().
LoadBuildConfig ==
    /\ cfgLoaded = NotLoaded
    /\ cfgLoaded' = load_user_config(cfgBase, cfgFile)
    /\ UNCHANGED <<cfgBase, cfgFile, cfgAgain, projVars>>
    /\ UNCHANGED <<buildSysVars, inputVars, regVars, mainVars, pkgVars, batch>>

\* BuildOptimizer.__init__: self.optimization_config =
\* load_optimization_config().
LoadOptimizationConfig ==
    /\ cfgLoaded = NotLoaded
    /\ cfgLoaded' = load_optimization_config(cfgBase, cfgFile)
    /\ UNCHANGED <<cfgBase, cfgFile, cfgAgain, projVars>>
    /\ UNCHANGED <<buildSysVars, inputVars, regVars, mainVars, pkgVars, batch>>

\* deep_merge_config called again with the merged configuration as base.
MergeAgain ==
    /\ cfgLoaded.loader = "build" /\ cfgLoaded.state = "loaded"
    /\ cfgFile.state = "valid"
    /\ ~cfgAgain.done
    /\ cfgAgain' = [done |-> TRUE,
                    config |-> deep_merge_config(cfgLoaded.config, cfgFile.doc)]
    /\ UNCHANGED <<cfgBase, cfgFile, cfgLoaded, projVars>>
    /\ UNCHANGED <<buildSysVars, inputVars, regVars, mainVars, pkgVars, batch>>

\* No configuration is being loaded.
LoadersIdle ==
    /\ cfgBase = NoDocument
    /\ cfgFile = ConfigFile("absent", NoDocument)
    /\ cfgLoaded = NotLoaded
    /\ cfgAgain = NotMerged

\* The project directory as checked out, without optimized configuration.
ProjectIdle ==
    /\ pri = PriFiles("original", "absent", FALSE, "original")
    /\ VersionIdle

\* No configuration is being loaded and no project file has been touched.
ConfigIdle ==
    /\ LoadersIdle
    /\ ProjectIdle

(***************************************************************************)
(* verify_packages.py : verification of the archives of a directory.       *)
(***************************************************************************)
ArchiveNames == {"camera.tar.gz", "audio.tar.gz"}

\* What tarfile makes of the bytes of an archive: "package" is a readable
\* archive with .pri file, include/, src/ and config/; "incomplete" a
\* readable archive that lacks one of them; "not_tar" raises
\* tarfile.TarError; "truncated" is a gzip stream cut short, which raises
\* EOFError.
Forms == {"package", "incomplete", "not_tar", "truncated"}

\* The contents an archive can have: two byte strings of each form.
Contents == {[form |-> f, patched |-> b] : f \in Forms, b \in BOOLEAN}

\* calculate_file_hash: the SHA-256 digest of the bytes, taken as free of
\* collisions.
calculate_file_hash(content) == <<"sha256", content>>

\* The sidecar file <archive>.sha256: absent, or one line with the digest
\* and the archive name.
NoSidecar == <<>>

SidecarOf(digest, name) == <<[digest |-> digest, name |-> name]>>

\* hash_file.read_text().strip().split()[0]
ExpectedHash(sidecar) == sidecar[1].digest

\* verify_package_structure: its errors; exceptions other than
\* tarfile.TarError leave it.
verify_package_structure(content) ==
    [raised |-> content.form = "truncated",
     errors |-> IF content.form = "incomplete" THEN <<"structure">>
                ELSE IF content.form = "not_tar" THEN <<"unreadable">>
                ELSE <<>>]

\* verify_package_dependencies: every exception is an error of the package.
verify_package_dependencies(content) ==
    IF content.form \in {"not_tar", "truncated"} THEN <<"dependencies">> ELSE <<>>

\* The sidecar is rewritten at every verification.
SidecarRefreshed(sidecar, digest, name) == SidecarOf(digest, name)

\* verify_package_integrity: the sidecar after the call.
SidecarAfter(sidecar, digest, name) ==
    IF sidecar = NoSidecar THEN SidecarOf(digest, name) ELSE sidecar

\* verify_package_integrity: its errors.
verify_package_integrity(content, sidecar) ==
    IF sidecar # NoSidecar /\ calculate_file_hash(content) # ExpectedHash(sidecar)
    THEN <<"integrity">> ELSE <<>>

\* verify_single_package: the result of one archive.
verify_single_package(name, content, sidecar) ==
    LET errors == verify_package_structure(content).errors
                  \o verify_package_dependencies(content)
                  \o verify_package_integrity(content, sidecar)
    IN  [package |-> name, success |-> errors = <<>>, errors |-> errors]

\* verify_packages_directory: the loop goes on to the next package file.
GoesOnAfter(entry) == TRUE

\* Every ordering of a set (the order of a glob or of the keys of a
\* document).
Listings(S) == InjSeqs(S, Cardinality(S))

\* verify_packages.py main up to the loop of verify_packages_directory:
\* an empty result list makes main return 1.
VerifyStart ==
    /\ vpc # "loop"
    /\ verifications < MaxRuns
    /\ verifications' = verifications + 1
    /\ vresults' = <<>>
    /\ \E files \in Listings(DOMAIN archives) :
          /\ listing' = files
          /\ IF files = <<>>
             THEN vpc' = "done" /\ vexit' = <<1>>
             ELSE vpc' = "loop" /\ vexit' = <<>>
    /\ UNCHANGED <<archives, sidecars, tampered>>
    /\ UNCHANGED <<buildSysVars, inputVars, regVars, mainVars, cfgVars, batch>>

\* One iteration of `for package_file in package_files`. An exception that
\* leaves verify_single_package ends the process with a traceback.
VerifyPackage ==
    /\ vpc = "loop"
    /\ Len(vresults) < Len(listing)
    /\ LET name == listing[Len(vresults) + 1]
           content == archives[name]
           entry == verify_single_package(name, content, sidecars[name])
       IN  IF verify_package_structure(content).raised
           THEN /\ vpc' = "raised"
                /\ vexit' = <<1>>
                /\ UNCHANGED <<vresults, sidecars>>
           ELSE /\ vresults' = Append(vresults, entry)
                /\ sidecars' =
                      [sidecars EXCEPT
                          ![name] = SidecarAfter(@, calculate_file_hash(content), name)]
                /\ vpc' = IF GoesOnAfter(entry) THEN "loop" ELSE "break"
                /\ UNCHANGED vexit
    /\ UNCHANGED <<archives, listing, verifications, tampered>>
    /\ UNCHANGED <<buildSysVars, inputVars, regVars, mainVars, cfgVars, batch>>

\* main after verify_packages_directory: the report, and exit code 1 when a
\* result failed.
VerifyReturn ==
    /\ vpc \in {"loop", "break"}
    /\ vpc = "loop" => Len(vresults) = Len(listing)
    /\ vpc' = "done"
    /\ vexit' = IF \E i \in 1..Len(vresults) : ~vresults[i].success THEN <<1>> ELSE <<0>>
    /\ UNCHANGED <<archives, sidecars, listing, vresults, verifications, tampered>>
    /\ UNCHANGED <<buildSysVars, inputVars, regVars, mainVars, cfgVars, batch>>

\* Between two runs somebody changes the bytes of an archive whose sidecar
\* has been written.
Tamper ==
    /\ vpc \in {"done", "raised"}
    /\ \E name \in DOMAIN archives \ tampered :
          /\ sidecars[name] # NoSidecar
          /\ \E content \in Contents \ {archives[name]} :
                archives' = [archives EXCEPT ![name] = content]
          /\ tampered' = tampered \cup {name}
    /\ vpc' = "idle"
    /\ vresults' = <<>>
    /\ vexit' = <<>>
    /\ UNCHANGED <<sidecars, listing, verifications>>
    /\ UNCHANGED <<buildSysVars, inputVars, regVars, mainVars, cfgVars, batch>>

NoArchives == [n \in {} |-> [form |-> "package", patched |-> FALSE]]

\* No verification has run and no sidecar is written.
VerifierAtRest ==
    /\ sidecars = [n \in ArchiveNames |-> NoSidecar]
    /\ listing = <<>>
    /\ vpc = "idle"
    /\ vresults = <<>>
    /\ vexit = <<>>
    /\ verifications = 0
    /\ tampered = {}

\* No package directory is being verified.
VerifierIdle ==
    /\ archives = NoArchives
    /\ VerifierAtRest

(***************************************************************************)
(* build_system.py : create_packages and verify_packages on build/packages.*)
(***************************************************************************)
\* An archive as make package_all writes it.
FreshPackage == [form |-> "package", patched |-> FALSE]

\* What a successful `make package_all` writes into build/packages: the
\* archives of some of the modules (the makefile decides which).
MadePackages == UNION {[S -> {FreshPackage}] : S \in SUBSET ArchiveNames}

\* The directory after the archives `made` have been written into it.
WrittenInto(dir, made) ==
    [n \in DOMAIN dir \cup DOMAIN made |-> IF n \in DOMAIN made THEN made[n] ELSE dir[n]]

\* create_packages: True without running make when packaging is disabled,
\* else the outcome of make package_all; `after` is build/packages then.
create_packages(config, dir, ok, after) ==
    /\ ~config.enable_packaging => ok /\ after = dir
    /\ config.enable_packaging =>
          IF ok THEN \E made \in MadePackages : after = WrittenInto(dir, made)
                ELSE after = dir

\* An empty result list does not fail the run.
FailsOnNothingNever(results) == FALSE

\* verify_packages.py main: `if results: ... else: return 1`
FailsOnNothing(results) == results = <<>>

\* A run of verify_packages.py over the directory, its package files found
\* in the order `files`: the archives verified before an exception ends
\* the process, the sidecars then, and the exit code.
verify_packages_main(dir, side, files) ==
    LET raising == {i \in 1..Len(files) : verify_package_structure(dir[files[i]]).raised}
        verified == IF raising = {} THEN files
                    ELSE SubSeq(files, 1,
                             (CHOOSE i \in raising : \A j \in raising : i <= j) - 1)
        results == [i \in 1..Len(verified) |->
                       verify_single_package(verified[i], dir[verified[i]],
                                             side[verified[i]])]
    IN  [raised |-> raising # {},
         results |-> results,
         sidecars |-> [n \in DOMAIN side |->
                          IF n \in Range(verified)
                          THEN SidecarAfter(side[n], calculate_file_hash(dir[n]), n)
                          ELSE side[n]],
         exit |-> IF raising # {} \/ FailsOnNothing(results) THEN <<1>>
                  ELSE IF \E i \in 1..Len(results) : ~results[i].success THEN <<1>>
                  ELSE <<0>>]

\* The step Create Packages of full_build.
CreatePackages ==
    /\ pc = "step" /\ step = 5
    /\ \E ok \in BOOLEAN :
          /\ create_packages(build_config, archives, ok, archives')
          /\ StepReturns(ok)
    /\ UNCHANGED <<sidecars, listing, vpc, vresults, vexit, verifications, tampered>>
    /\ UNCHANGED <<mainVars, cfgVars, batch>>
    /\ UNCHANGED <<schedVars, inputVars, regVars, buildVars>>

\* The step Verify Packages of full_build: run_tool returns False when the
\* tool script is missing, else True exactly when verify_packages.py on
\* build/packages exits with 0.
VerifyPackages ==
    /\ pc = "step" /\ step = 6
    /\ \/ /\ StepReturns(FALSE)
          /\ UNCHANGED sidecars
       \/ \E files \in Listings(DOMAIN archives) :
             LET run == verify_packages_main(archives, sidecars, files)
             IN  /\ sidecars' = run.sidecars
                 /\ StepReturns(run.exit = <<0>>)
    /\ UNCHANGED <<archives, listing, vpc, vresults, vexit, verifications, tampered>>
    /\ UNCHANGED <<mainVars, cfgVars, batch>>
    /\ UNCHANGED <<schedVars, inputVars, regVars, buildVars>>

(***************************************************************************)
(* install_module.py, uninstall_module.py : the commands of the tools.     *)
(* A command ends with one of the outcomes                                 *)
(*   "success", "AlreadyInstalled", "NotInstalled", "BlockedByDependents", *)
(*   "PackageError", "RegistryCorruption", "IOError" (the tool returns     *)
(*   False or raises), "verified", "not_verified", or "crashed" (the       *)
(*   process was killed).                                                  *)
(***************************************************************************)
Procs == {1, 2}

\* The I/O errors and kills of one behaviour.
MaxFaults == 1

NoOp ==
    [kind |-> "none", name |-> <<>>, force |-> FALSE, pkg |-> NoPkg,
     wasInstalled |-> FALSE, dependents |-> {}]

NoChain == [stage |-> "none", name |-> <<>>, paths |-> {}]

\* The first k elements of a sequence, as a set.
Prefix(q, k) == {q[i] : i \in 1..k}

\* A process may start a command.
CanStart(p) ==
    /\ p \in procs
    /\ rpc[p] = "idle"
    /\ oneShot => outcome[p] = "none"

\* The command of p ends with outcome o.
Ends(p, o) ==
    /\ rpc' = [rpc EXCEPT ![p] = "idle"]
    /\ outcome' = [outcome EXCEPT ![p] = o]

\* The command of p goes on at position r.
GoesOn(p, r) ==
    /\ rpc' = [rpc EXCEPT ![p] = r]
    /\ outcome' = [outcome EXCEPT ![p] = "running"]

\* Every module counts as recorded.
in_registry_always(modules, name) == TRUE

\* `module_name in registry["modules"]`
in_registry(modules, name) == name \in DOMAIN modules

\* The installer never rejects a recorded module.
RejectsNever(recorded, force) == FALSE

\* `if module_name in registry["modules"] and not force:`
Rejects(recorded, force) == recorded /\ ~force

\* A failing script fails the installation.
run_post_install_scripts_strict(hookOk) == IF hookOk THEN "success" ELSE "IOError"

\* run_post_install_scripts: CalledProcessError is caught and printed as a
\* warning; install_module returns True.
run_post_install_scripts(hookOk) == "success"

\* install_module up to check_dependencies: extract_package,
\* validate_module, load_registry, the already-installed check.
InstallBegin(p) ==
    /\ CanStart(p)
    /\ \E pkg \in Packages, force \in BOOLEAN :
          LET reg == load_registry(regDisk)
              installed == ~reg.raised /\ pkg.name \in DOMAIN reg.modules
          IN  /\ op' = [op EXCEPT ![p] =
                        [kind |-> "install", name |-> pkg.name, force |-> force,
                         pkg |-> pkg, wasInstalled |-> installed, dependents |-> {}]]
              /\ IF pkg.defect # "none" THEN Ends(p, "PackageError")
                 ELSE IF reg.raised THEN Ends(p, "RegistryCorruption")
                 ELSE IF Rejects(in_registry(reg.modules, pkg.name), force)
                      THEN Ends(p, "AlreadyInstalled")
                 ELSE GoesOn(p, "copy")
    /\ trace' = [trace EXCEPT ![p] = <<>>]
    /\ chain' = NoChain
    /\ UNCHANGED <<regDisk, fs, procs, oneShot, loaded, installedPaths>>
    /\ UNCHANGED faults
    /\ UNCHANGED <<buildSysVars, inputVars, toolVars>>

\* install_module goes on to update_registry whatever was copied.
CopyFailureIgnored(copied, targets) == FALSE

\* A copy that raises leaves install_files and the try of install_module:
\* `except Exception` returns False before update_registry.
CopyFailureEnds(copied, targets) == copied < Len(targets)

\* install_files: copies the targets in order; a copy that raises ends the
\* command with the earlier targets in place.
InstallFiles(p) ==
    /\ p \in procs /\ rpc[p] = "copy"
    /\ LET targets == InstallTargets(validate_module(op[p].pkg), op[p].pkg)
       IN  \E k \in 0..Len(targets) :
              /\ fs' = fs \cup Prefix(targets, k)
              /\ installedPaths' =
                    [installedPaths EXCEPT ![op[p].name] = @ \cup Prefix(targets, k)]
              /\ trace' = [trace EXCEPT ![p] = IF k > 0 THEN Append(@, "copy") ELSE @]
              /\ IF CopyFailureEnds(k, targets)
                 THEN faults < MaxFaults /\ faults' = faults + 1 /\ Ends(p, "IOError")
                 ELSE GoesOn(p, "record_load") /\ UNCHANGED faults
    /\ UNCHANGED <<regDisk, procs, oneShot, op, loaded, chain>>
    /\ UNCHANGED <<buildSysVars, inputVars, toolVars>>

\* update_registry, first line: registry = self.load_registry(). The
\* uninstaller saves only when the module is in the loaded document.
RecordLoad(p) ==
    /\ p \in procs /\ rpc[p] = "record_load"
    /\ LET reg == load_registry(regDisk)
       IN  IF reg.raised
           THEN /\ Ends(p, "RegistryCorruption")
                /\ UNCHANGED <<loaded, chain>>
           ELSE /\ loaded' = [loaded EXCEPT ![p] = reg.modules]
                /\ IF op[p].kind = "uninstall" /\ ~in_registry(reg.modules, op[p].name)
                   THEN /\ Ends(p, "success")
                        /\ chain' = IF chain.stage = "installed" /\ chain.name = op[p].name
                                     THEN [chain EXCEPT !.stage = "uninstalled"]
                                     ELSE NoChain
                   ELSE /\ GoesOn(p, "save_open")
                        /\ UNCHANGED chain
    /\ UNCHANGED <<regDisk, fs, procs, oneShot, op, trace, installedPaths>>
    /\ UNCHANGED faults
    /\ UNCHANGED <<buildSysVars, inputVars, toolVars>>

\* save_registry: open(self.module_registry, 'w') truncates the file.
SaveOpen(p) ==
    /\ p \in procs /\ rpc[p] = "save_open"
    /\ regDisk' = RegistryDoc("partial", NoModules)
    /\ trace' = [trace EXCEPT ![p] = Append(@, "save")]
    /\ GoesOn(p, "save_write")
    /\ UNCHANGED <<fs, procs, oneShot, op, loaded, installedPaths, chain>>
    /\ UNCHANGED faults
    /\ UNCHANGED <<buildSysVars, inputVars, toolVars>>

\* The document update_registry hands to save_registry.
UpdatedModules(o, modules) ==
    IF o.kind = "install" THEN RegistryWith(modules, validate_module(o.pkg))
                          ELSE RegistryWithout(modules, o.name)

\* save_registry: json.dump has written the whole document. The
\* uninstaller then cleans up empty directories and returns True.
SaveWrite(p) ==
    /\ p \in procs /\ rpc[p] = "save_write"
    /\ regDisk' = RegistryDoc("valid", UpdatedModules(op[p], loaded[p]))
    /\ IF op[p].kind = "install"
       THEN /\ GoesOn(p, "post_install")
            /\ UNCHANGED chain
       ELSE /\ Ends(p, "success")
            /\ chain' = IF chain.stage = "installed" /\ chain.name = op[p].name
                         THEN [chain EXCEPT !.stage = "uninstalled"]
                         ELSE NoChain
    /\ UNCHANGED <<fs, procs, oneShot, op, loaded, trace, installedPaths>>
    /\ UNCHANGED faults
    /\ UNCHANGED <<buildSysVars, inputVars, toolVars>>

\* run_post_install_scripts and `return True`: a script that fails is a
\* warning.
PostInstall(p) ==
    /\ p \in procs /\ rpc[p] = "post_install"
    /\ \E hookOk \in BOOLEAN :
          LET ended == IF op[p].pkg.hook THEN run_post_install_scripts(hookOk)
                                         ELSE "success"
          IN  /\ op[p].pkg.hook \/ hookOk
              /\ trace' = [trace EXCEPT ![p] =
                            IF ~op[p].pkg.hook THEN @
                            ELSE IF hookOk THEN Append(@, "hook")
                            ELSE Append(@, "hook_failed")]
              /\ Ends(p, ended)
              /\ chain' = IF ended = "success"
                           THEN [stage |-> "installed", name |-> op[p].name,
                                 paths |-> Range(InstallTargets(validate_module(op[p].pkg),
                                                                op[p].pkg))]
                           ELSE NoChain
    /\ UNCHANGED <<regDisk, fs, procs, oneShot, op, loaded, installedPaths>>
    /\ UNCHANGED faults
    /\ UNCHANGED <<buildSysVars, inputVars, toolVars>>

\* `if dependent_modules and not force:`
Refuses(dependents, force) == dependents # {} /\ ~force

\* uninstall_module up to run_pre_uninstall_scripts: load_registry, the
\* not-installed check, check_dependencies, the pre-uninstall script (which
\* may not exist, pass or fail).
UninstallStart(p, name, force, hook) ==
    LET reg == load_registry(regDisk)
        installed == ~reg.raised /\ name \in DOMAIN reg.modules
        starts == /\ ~reg.raised
                  /\ in_registry(reg.modules, name)
                  /\ ~Refuses(check_dependencies(reg.modules, name), force)
    IN  /\ op' = [op EXCEPT ![p] =
                  [kind |-> "uninstall", name |-> name, force |-> force,
                   pkg |-> NoPkg, wasInstalled |-> installed,
                   dependents |-> DeclaredDependents(reg.modules, name)]]
        /\ IF reg.raised THEN Ends(p, "RegistryCorruption")
           ELSE IF ~in_registry(reg.modules, name) THEN Ends(p, "NotInstalled")
           ELSE IF ~starts THEN Ends(p, "BlockedByDependents")
           ELSE GoesOn(p, "remove")
        /\ trace' = [trace EXCEPT ![p] =
                      IF ~starts \/ hook = "none" THEN <<>>
                      ELSE IF hook = "ok" THEN <<"hook">> ELSE <<"hook_failed">>]
        /\ chain' = IF starts /\ chain.stage = "installed" /\ chain.name = name
                     THEN chain ELSE NoChain
        /\ UNCHANGED <<regDisk, fs, procs, oneShot, loaded, installedPaths>>
        /\ UNCHANGED faults

\* The command `uninstall <module> [--force]`.
UninstallBegin(p) ==
    /\ CanStart(p)
    /\ \E name \in RegistryModules, force \in BOOLEAN, hook \in {"none", "ok", "failed"} :
          UninstallStart(p, name, force, hook)
    /\ UNCHANGED <<buildSysVars, inputVars, toolVars>>

\* uninstall_module goes on to update_registry whatever was deleted.
RemovalFailureIgnored(removed, targets) == FALSE

\* A deletion that raises leaves remove_module_files and the try of
\* uninstall_module: `except Exception` returns False before update_registry.
RemovalFailureEnds(removed, targets) == removed < Len(targets)

\* remove_module_files: deletes the targets in order; a deletion that
\* raises ends the command with the later targets in place.
RemoveFiles(p) ==
    /\ p \in procs /\ rpc[p] = "remove"
    /\ \E targets \in RemovalTargets(fs, op[p].name) :
          \E k \in 0..Len(targets) :
              /\ fs' = fs \ Prefix(targets, k)
              /\ trace' = [trace EXCEPT ![p] = IF k > 0 THEN Append(@, "remove") ELSE @]
              /\ IF RemovalFailureEnds(k, targets)
                 THEN /\ faults < MaxFaults
                      /\ faults' = faults + 1
                      /\ Ends(p, "IOError")
                      /\ chain' = NoChain
                 ELSE /\ GoesOn(p, "record_load")
                      /\ UNCHANGED <<chain, faults>>
    /\ UNCHANGED <<regDisk, procs, oneShot, op, loaded, installedPaths>>
    /\ UNCHANGED <<buildSysVars, inputVars, toolVars>>

\* verify_uninstallation.
Verify(p) ==
    /\ CanStart(p)
    /\ \E name \in RegistryModules :
          LET reg == load_registry(regDisk)
              ok == /\ ~reg.raised
                    /\ ~in_registry(reg.modules, name)
                    /\ RemainingFiles(fs, name) = {}
          IN  /\ op' = [op EXCEPT ![p] =
                        [kind |-> "verify", name |-> name, force |-> FALSE,
                         pkg |-> NoPkg,
                         wasInstalled |-> ~reg.raised /\ name \in DOMAIN reg.modules,
                         dependents |-> {}]]
              /\ IF reg.raised THEN Ends(p, "RegistryCorruption")
                 ELSE IF ok THEN Ends(p, "verified")
                 ELSE Ends(p, "not_verified")
              /\ chain' = IF chain.stage = "uninstalled" /\ chain.name = name /\ ~reg.raised
                           THEN [chain EXCEPT !.stage = IF ok THEN "verified"
                                                              ELSE "not_verified"]
                           ELSE NoChain
    /\ trace' = [trace EXCEPT ![p] = <<>>]
    /\ UNCHANGED <<regDisk, fs, procs, oneShot, loaded, installedPaths>>
    /\ UNCHANGED faults
    /\ UNCHANGED <<buildSysVars, inputVars, toolVars>>

\* The process is killed in the middle of a command.
Crash(p) ==
    /\ p \in procs /\ rpc[p] # "idle"
    /\ faults < MaxFaults
    /\ faults' = faults + 1
    /\ Ends(p, "crashed")
    /\ chain' = NoChain
    /\ UNCHANGED <<regDisk, fs, procs, oneShot, op, loaded, trace, installedPaths>>
    /\ UNCHANGED <<buildSysVars, inputVars, toolVars>>

Batch(state, planned, attempts, current, success) ==
    [state |-> state, planned |-> planned, attempts |-> attempts, current |-> current,
     success |-> success]

NoBatch == Batch("idle", <<>>, <<>>, FALSE, FALSE)

\* The loop ends at the first module whose uninstall fails.
ContinuesIfUninstalled(ok) == ok

\* uninstall_all_modules: the loop goes on to the next module.
ContinuesAfter(ok) == TRUE

\* uninstall_all_modules up to its loop: load_registry (outside every try),
\* `return True` when no module is recorded, the confirmation unless force.
UninstallAllBegin(p) ==
    /\ CanStart(p)
    /\ batch.state = "idle"
    /\ LET reg == load_registry(regDisk)
       IN  \E force \in BOOLEAN, confirmed \in BOOLEAN,
              modules_to_uninstall \in Listings(DOMAIN reg.modules) :
              batch' =
                 IF reg.raised THEN Batch("raised", <<>>, <<>>, FALSE, FALSE)
                 ELSE IF modules_to_uninstall = <<>>
                      THEN Batch("returned", <<>>, <<>>, FALSE, TRUE)
                 ELSE IF ~force /\ ~confirmed
                      THEN Batch("cancelled", modules_to_uninstall, <<>>, FALSE, FALSE)
                 ELSE Batch("running", modules_to_uninstall, <<>>, FALSE, FALSE)
    /\ UNCHANGED regVars
    /\ UNCHANGED <<buildSysVars, inputVars, mainVars, cfgVars, pkgVars>>

\* `self.uninstall_module(module_name, force=True)` of the loop: its start.
UninstallAllItem(p) ==
    /\ p \in procs /\ rpc[p] = "idle"
    /\ batch.state = "running" /\ ~batch.current
    /\ Len(batch.attempts) < Len(batch.planned)
    /\ \E hook \in {"none", "ok", "failed"} :
          UninstallStart(p, batch.planned[Len(batch.attempts) + 1], TRUE, hook)
    /\ batch' = [batch EXCEPT !.current = TRUE]
    /\ UNCHANGED <<buildSysVars, inputVars, mainVars, cfgVars, pkgVars>>

\* uninstall_module has returned: `success_count += 1` when it returned
\* True.
UninstallAllNext(p) ==
    /\ p \in procs /\ rpc[p] = "idle"
    /\ batch.state = "running" /\ batch.current
    /\ LET ok == outcome[p] = "success"
           attempts == Append(batch.attempts, [name |-> op[p].name, ok |-> ok])
       IN  batch' = IF ContinuesAfter(ok)
                    THEN [batch EXCEPT !.attempts = attempts, !.current = FALSE]
                    ELSE Batch("returned", batch.planned, attempts, FALSE, FALSE)
    /\ UNCHANGED regVars
    /\ UNCHANGED <<buildSysVars, inputVars, mainVars, cfgVars, pkgVars>>

\* `return success_count == len(modules_to_uninstall)`
UninstallAllReturn(p) ==
    /\ p \in procs /\ rpc[p] = "idle"
    /\ batch.state = "running" /\ ~batch.current
    /\ Len(batch.attempts) = Len(batch.planned)
    /\ batch' = [batch EXCEPT
                    !.state = "returned",
                    !.success = Cardinality({i \in 1..Len(batch.attempts) :
                                                 batch.attempts[i].ok})
                                = Len(batch.planned)]
    /\ UNCHANGED regVars
    /\ UNCHANGED <<buildSysVars, inputVars, mainVars, cfgVars, pkgVars>>

(***************************************************************************)
(* build_system.py : main.                                                 *)
(***************************************************************************)
Commands == {"build", "clean", "test", "package", "report"}

\* `return 0 if success else 1`
ExitCode(success) == IF success THEN 0 ELSE 1

\* main, command build: full_build has returned.
MainBuild ==
    /\ command = "build" /\ pc = "done" /\ exit_code = <<>>
    /\ exit_code' = <<ExitCode(result = "pass")>>
    /\ UNCHANGED <<environ, command, op_failed, cfgVars, pkgVars, batch>>
    /\ UNCHANGED <<buildSysVars, inputVars, regVars>>

\* main, command clean: clean_build drops the result of run_tool and main
\* returns 0.
MainClean ==
    /\ command = "clean" /\ pc = "main"
    /\ \E toolOk \in BOOLEAN : op_failed' = ~toolOk
    /\ exit_code' = <<0>>
    /\ pc' = "done"
    /\ UNCHANGED <<environ, command, cfgVars, pkgVars, batch>>
    /\ UNCHANGED <<schedVars, buildVars, pipeVars, inputVars, regVars>>

\* main, command test: run_tests.
MainTest ==
    /\ command = "test" /\ pc = "main"
    /\ \E ok \in BOOLEAN :
          /\ ~build_config.enable_testing => ok
          /\ op_failed' = ~ok
          /\ exit_code' = <<ExitCode(ok)>>
    /\ pc' = "done"
    /\ UNCHANGED <<environ, command, cfgVars, pkgVars, batch>>
    /\ UNCHANGED <<schedVars, buildVars, pipeVars, inputVars, regVars>>

\* main, command package: create_packages.
MainPackage ==
    /\ command = "package" /\ pc = "main"
    /\ \E ok \in BOOLEAN :
          /\ create_packages(build_config, archives, ok, archives')
          /\ op_failed' = ~ok
          /\ exit_code' = <<ExitCode(ok)>>
    /\ pc' = "done"
    /\ UNCHANGED <<sidecars, listing, vpc, vresults, vexit, verifications, tampered>>
    /\ UNCHANGED <<environ, command, cfgVars, batch>>
    /\ UNCHANGED <<schedVars, buildVars, pipeVars, inputVars, regVars>>

\* main, command report: generate_build_report is printed.
MainReport ==
    /\ command = "report" /\ pc = "main"
    /\ op_failed' = FALSE
    /\ exit_code' = <<0>>
    /\ pc' = "done"
    /\ UNCHANGED <<environ, command, cfgVars, pkgVars, batch>>
    /\ UNCHANGED <<schedVars, buildVars, pipeVars, inputVars, regVars>>

\* No command of build_system.py runs.
MainIdle ==
    /\ environ = Unset
    /\ command = "none"
    /\ exit_code = <<>>
    /\ op_failed = FALSE

\* Neither a loader, nor the verifier, nor uninstall_all_modules runs.
ToolsIdle ==
    /\ ConfigIdle
    /\ VerifierIdle
    /\ batch = NoBatch

\* No tool process runs; the prefix is empty.
RegistryIdle ==
    /\ regDisk = AbsentRegistry
    /\ fs = {}
    /\ procs = {}
    /\ oneShot = FALSE
    /\ op = [p \in Procs |-> NoOp]
    /\ rpc = [p \in Procs |-> "idle"]
    /\ loaded = [p \in Procs |-> NoModules]
    /\ trace = [p \in Procs |-> <<>>]
    /\ outcome = [p \in Procs |-> "none"]
    /\ installedPaths = [n \in RegistryModules |-> {}]
    /\ chain = NoChain
    /\ faults = 0

(***************************************************************************)
(* Specification of the program: full_build under a user configuration.    *)
(***************************************************************************)
\* module_build_order after load_optimization_config: the default, or the
\* list of a user file.
UserBuildOrders == {DefaultModuleBuildOrder, <<>>, <<"ui", "chat">>}

\* Iteration orders of set(dependencies.keys()) that the model draws.
GraphIterOrders == {GraphKeyOrder, Reverse(GraphKeyOrder)}

NoGraph == [m \in {} |-> {}]

\* build/packages as earlier runs left it: empty, or with an archive of the
\* camera module, whole or cut short.
PackageDirs ==
    {NoArchives} \cup
    {[n \in {"camera.tar.gz"} |-> [form |-> f, patched |-> FALSE]] :
        f \in {"package", "truncated"}}

\* The .pri files of a fresh checkout.
FreshPriFiles ==
    {PriFiles(t, "absent", o, t) : t \in {"absent", "original"}, o \in BOOLEAN}

\* The .pri files at the start of a run: as checked out without an
\* optimized configuration, or as one earlier run with the optimized
\* configuration left them.
PriStates ==
    {PriFiles("original", "absent", FALSE, "original"),
     PriFiles("optimized", "original", TRUE, "original")}

\* JITSI_DISABLE_MODULES as the process inherits it: not set, or left by an
\* earlier run that disabled camera.
InheritedEnvironments == {Unset, EnvValue(<<"camera">>)}

Init ==
    /\ build_config \in
          {load_build_config(d, o, t, p) :
              d \in {D \in SUBSET ConfigModules : Cardinality(D) <= MaxDisabled},
              o \in BOOLEAN, t \in BOOLEAN, p \in BOOLEAN}
    /\ config_order \in UserBuildOrders
    /\ iterOrder \in GraphIterOrders
    /\ dependencies = NoGraph
    /\ build_order = <<>>
    /\ built_modules = {}
    /\ remaining_modules = {}
    /\ iterations = 0
    /\ warnings = 0
    /\ lastReady = <<>>
    /\ forced = {}
    /\ command \in Commands
    /\ pc = IF command = "build" THEN "step" ELSE "main"
    /\ step = IF command = "build" THEN 1 ELSE 0
    /\ executed = <<>>
    /\ result = "running"
    /\ report_written = FALSE
    /\ successful_builds = 0
    /\ attempted = <<>>
    /\ build_all_result = "none"
    /\ environ \in InheritedEnvironments
    /\ exit_code = <<>>
    /\ op_failed = FALSE
    /\ LoadersIdle
    /\ pri \in PriStates
    /\ VersionIdle
    /\ archives \in PackageDirs
    /\ VerifierAtRest
    /\ batch = NoBatch
    /\ RegistryIdle

Next ==
    \/ SetupEnvironment
    \/ ConfigureModules
    \/ BuildStandard
    \/ BuildToolMissing
    \/ BuildAllStart
    \/ CalcStep
    \/ CalcReturn
    \/ BuildModule
    \/ BuildAllReturn
    \/ RunTests
    \/ CreatePackages
    \/ VerifyPackages
    \/ CreateDistribution
    \/ MainBuild
    \/ MainClean
    \/ MainTest
    \/ MainPackage
    \/ MainReport

Spec == Init /\ [][Next]_vars

(***************************************************************************)
(* Specification of calculate_build_order over bounded inputs.             *)
(***************************************************************************)
\* The modules of the graphs, and a name that is no module.
ModuleSet == {"a", "b", "c"}

UnknownName == "x"

\* Every graph on ModuleSet whose modules declare at most MaxDeps
\* dependencies among the modules (themselves included) and UnknownName.
Graphs ==
    [ModuleSet -> {D \in SUBSET (ModuleSet \cup {UnknownName}) : Cardinality(D) <= MaxDeps}]

\* A preference list that names "a" behind AbsentKey + 1 other entries.
LongPreference ==
    [i \in 1..(AbsentKey + 2) |-> IF i <= AbsentKey + 1 THEN UnknownName ELSE "a"]

\* The preference lists: the duplicate-free lists of at most MaxPrefLen
\* modules, and the long list.
Preferences ==
    UNION {InjSeqs(ModuleSet, n) : n \in 0..MaxPrefLen} \cup {LongPreference}

InitOrder ==
    /\ build_config = load_build_config({}, TRUE, TRUE, TRUE)
    /\ config_order \in Preferences
    /\ iterOrder \in InjSeqs(ModuleSet, Cardinality(ModuleSet))
    /\ dependencies \in Graphs
    /\ build_order = <<>>
    /\ built_modules = {}
    /\ remaining_modules = ModuleSet
    /\ iterations = 0
    /\ warnings = 0
    /\ lastReady = <<>>
    /\ forced = {}
    /\ pc = "calc_loop"
    /\ step = 0
    /\ executed = <<>>
    /\ result = "running"
    /\ report_written = FALSE
    /\ successful_builds = 0
    /\ attempted = <<>>
    /\ build_all_result = "none"
    /\ MainIdle
    /\ ToolsIdle
    /\ RegistryIdle

NextOrder ==
    \/ CalcStep
    \/ CalcReturn

SpecOrder == InitOrder /\ [][NextOrder]_vars

(***************************************************************************)
(* Specification of repeated runs of the step Configure Modules on one     *)
(* project directory.                                                      *)
(***************************************************************************)
\* What full_build has recorded when it reaches Configure Modules.
SetupPassed == <<[name |-> StepNames[1], ok |-> TRUE]>>

\* A later `build_system.py build` in a new process: Setup Environment
\* passes and full_build reaches Configure Modules again.
NextBuild ==
    /\ pc \in {"step", "done"}
    /\ Len(executed) = 2
    /\ pc' = "step"
    /\ step' = 2
    /\ executed' = SetupPassed
    /\ result' = "running"
    /\ environ' \in InheritedEnvironments
    /\ UNCHANGED <<report_written, command, exit_code, op_failed, pri>>
    /\ UNCHANGED <<cfgBase, cfgFile, cfgLoaded, cfgAgain, pkgVars, batch>>
    /\ UNCHANGED <<schedVars, inputVars, regVars, buildVars, versionVars>>

InitConfigure ==
    /\ build_config \in
          {load_build_config(d, o, t, p) :
              d \in {D \in SUBSET ConfigModules : Cardinality(D) <= MaxDisabled},
              o \in BOOLEAN, t \in BOOLEAN, p \in BOOLEAN}
    /\ config_order = DefaultModuleBuildOrder
    /\ iterOrder = GraphKeyOrder
    /\ dependencies = NoGraph
    /\ build_order = <<>>
    /\ built_modules = {}
    /\ remaining_modules = {}
    /\ iterations = 0
    /\ warnings = 0
    /\ lastReady = <<>>
    /\ forced = {}
    /\ command = "build"
    /\ pc = "step"
    /\ step = 2
    /\ executed = SetupPassed
    /\ result = "running"
    /\ report_written = FALSE
    /\ successful_builds = 0
    /\ attempted = <<>>
    /\ build_all_result = "none"
    /\ environ \in InheritedEnvironments
    /\ exit_code = <<>>
    /\ op_failed = FALSE
    /\ LoadersIdle
    /\ pri \in FreshPriFiles
    /\ VersionIdle
    /\ VerifierIdle
    /\ batch = NoBatch
    /\ RegistryIdle

NextConfigure ==
    \/ ConfigureModules
    \/ NextBuild

SpecConfigure == InitConfigure /\ [][NextConfigure]_vars

(***************************************************************************)
(* Specification of calculate_build_order with a preference list that      *)
(* names every module: every graph on ModuleSet within MaxDeps under every *)
(* order of its modules, and the built-in graph under module_build_order.  *)
(***************************************************************************)
\* The iteration orders of the set of modules of a graph that are drawn.
IterOrdersOf(g) ==
    IF DOMAIN g = ModuleSet THEN InjSeqs(ModuleSet, Cardinality(ModuleSet))
    ELSE GraphIterOrders

InitOrderFull ==
    /\ build_config = load_build_config({}, TRUE, TRUE, TRUE)
    /\ \/ /\ dependencies \in Graphs
          /\ config_order \in InjSeqs(ModuleSet, Cardinality(ModuleSet))
       \/ /\ dependencies = create_dependency_graph
          /\ config_order = DefaultModuleBuildOrder
    /\ iterOrder \in IterOrdersOf(dependencies)
    /\ build_order = <<>>
    /\ built_modules = {}
    /\ remaining_modules = DOMAIN dependencies
    /\ iterations = 0
    /\ warnings = 0
    /\ lastReady = <<>>
    /\ forced = {}
    /\ pc = "calc_loop"
    /\ step = 0
    /\ executed = <<>>
    /\ result = "running"
    /\ report_written = FALSE
    /\ successful_builds = 0
    /\ attempted = <<>>
    /\ build_all_result = "none"
    /\ MainIdle
    /\ ToolsIdle
    /\ RegistryIdle

NextOrderFull ==
    \/ CalcStep
    \/ CalcReturn

SpecOrderFull == InitOrderFull /\ [][NextOrderFull]_vars

(***************************************************************************)
(* Specification of the install and uninstall tools: one process that runs *)
(* commands one after the other on an initially empty prefix.              *)
(***************************************************************************)
BuildSystemIdle ==
    /\ build_config = load_build_config({}, TRUE, TRUE, TRUE)
    /\ config_order = DefaultModuleBuildOrder
    /\ iterOrder = GraphKeyOrder
    /\ dependencies = NoGraph
    /\ build_order = <<>>
    /\ built_modules = {}
    /\ remaining_modules = {}
    /\ iterations = 0
    /\ warnings = 0
    /\ lastReady = <<>>
    /\ forced = {}
    /\ pc = "idle"
    /\ step = 0
    /\ executed = <<>>
    /\ result = "running"
    /\ report_written = FALSE
    /\ successful_builds = 0
    /\ attempted = <<>>
    /\ build_all_result = "none"
    /\ MainIdle

InitRegistry ==
    /\ BuildSystemIdle
    /\ ToolsIdle
    /\ regDisk = AbsentRegistry
    /\ fs = {}
    /\ procs = {1}
    /\ oneShot = FALSE
    /\ op = [p \in Procs |-> NoOp]
    /\ rpc = [p \in Procs |-> "idle"]
    /\ loaded = [p \in Procs |-> NoModules]
    /\ trace = [p \in Procs |-> <<>>]
    /\ outcome = [p \in Procs |-> "none"]
    /\ installedPaths = [n \in RegistryModules |-> {}]
    /\ chain = NoChain
    /\ faults = 0

NextRegistry ==
    \E p \in Procs :
        \/ InstallBegin(p)
        \/ InstallFiles(p)
        \/ RecordLoad(p)
        \/ SaveOpen(p)
        \/ SaveWrite(p)
        \/ PostInstall(p)
        \/ UninstallBegin(p)
        \/ RemoveFiles(p)
        \/ Verify(p)
        \/ Crash(p)

SpecRegistry == InitRegistry /\ [][NextRegistry]_vars

(***************************************************************************)
(* Specification of two tool processes that each run one command on the    *)
(* same prefix, which is empty or holds the settings module.               *)
(***************************************************************************)
InitRegistry2 ==
    /\ BuildSystemIdle
    /\ ToolsIdle
    /\ \E installed \in BOOLEAN :
          LET info == validate_module(PkgSettings)
              paths == Range(InstallTargets(info, PkgSettings))
          IN  /\ regDisk = IF installed
                           THEN RegistryDoc("valid", RegistryWith(NoModules, info))
                           ELSE AbsentRegistry
              /\ fs = IF installed THEN paths ELSE {}
              /\ installedPaths =
                    [n \in RegistryModules |-> IF installed /\ n = Settings THEN paths ELSE {}]
    /\ procs = Procs
    /\ oneShot = TRUE
    /\ op = [p \in Procs |-> NoOp]
    /\ rpc = [p \in Procs |-> "idle"]
    /\ loaded = [p \in Procs |-> NoModules]
    /\ trace = [p \in Procs |-> <<>>]
    /\ outcome = [p \in Procs |-> "none"]
    /\ chain = NoChain
    /\ faults = 0

NextRegistry2 ==
    \E p \in Procs :
        \/ InstallBegin(p)
        \/ InstallFiles(p)
        \/ RecordLoad(p)
        \/ SaveOpen(p)
        \/ SaveWrite(p)
        \/ PostInstall(p)
        \/ UninstallBegin(p)
        \/ RemoveFiles(p)
        \/ Verify(p)
        \/ Crash(p)

SpecRegistry2 == InitRegistry2 /\ [][NextRegistry2]_vars

(***************************************************************************)
(* Specification of uninstall_all_modules: one process on a prefix that    *)
(* holds some of the packages, with a registry that parses or does not.    *)
(***************************************************************************)
\* The sets of packages with different names.
InstalledSets ==
    {S \in SUBSET {PkgSettings, PkgSettingsQuick, PkgUi} :
        \A a, b \in S : a.name = b.name => a = b}

RECURSIVE RegistryOf(_)
RegistryOf(S) ==
    IF S = {} THEN NoModules
    ELSE LET pkg == CHOOSE x \in S : TRUE
         IN  RegistryWith(RegistryOf(S \ {pkg}), validate_module(pkg))

InitUninstallAll ==
    /\ BuildSystemIdle
    /\ ConfigIdle
    /\ VerifierIdle
    /\ batch = NoBatch
    /\ \E S \in InstalledSets, parses \in BOOLEAN :
          /\ regDisk = IF ~parses THEN RegistryDoc("partial", NoModules)
                       ELSE IF S = {} THEN AbsentRegistry
                       ELSE RegistryDoc("valid", RegistryOf(S))
          /\ fs = UNION {Range(InstallTargets(validate_module(pkg), pkg)) : pkg \in S}
          /\ installedPaths =
                [n \in RegistryModules |->
                    UNION {Range(InstallTargets(validate_module(pkg), pkg)) :
                              pkg \in {x \in S : x.name = n}}]
    /\ procs = {1}
    /\ oneShot = FALSE
    /\ op = [p \in Procs |-> NoOp]
    /\ rpc = [p \in Procs |-> "idle"]
    /\ loaded = [p \in Procs |-> NoModules]
    /\ trace = [p \in Procs |-> <<>>]
    /\ outcome = [p \in Procs |-> "none"]
    /\ chain = NoChain
    /\ faults = 0

NextUninstallAll ==
    \E p \in Procs :
        \/ UninstallAllBegin(p)
        \/ UninstallAllItem(p)
        \/ RemoveFiles(p)
        \/ RecordLoad(p)
        \/ SaveOpen(p)
        \/ SaveWrite(p)
        \/ UninstallAllNext(p)
        \/ UninstallAllReturn(p)

SpecUninstallAll == InitUninstallAll /\ [][NextUninstallAll]_vars

(***************************************************************************)
(* Specification of the configuration loaders over bounded documents.      *)
(***************************************************************************)
InitConfig ==
    /\ BuildSystemIdle
    /\ VerifierIdle
    /\ batch = NoBatch
    /\ RegistryIdle
    /\ cfgBase \in Documents
    /\ cfgFile \in ConfigFiles
    /\ cfgLoaded = NotLoaded
    /\ cfgAgain = NotMerged
    /\ ProjectIdle

NextConfig ==
    \/ LoadBuildConfig
    \/ LoadOptimizationConfig
    \/ MergeAgain

SpecConfig == InitConfig /\ [][NextConfig]_vars

(***************************************************************************)
(* Specification of verify_packages.py: at most MaxRuns runs on a          *)
(* directory of archives that are changed between the runs.                *)
(***************************************************************************)
InitVerify ==
    /\ BuildSystemIdle
    /\ ConfigIdle
    /\ batch = NoBatch
    /\ RegistryIdle
    /\ archives \in MapsOver(ArchiveNames, Contents)
    /\ sidecars = [n \in ArchiveNames |-> NoSidecar]
    /\ listing = <<>>
    /\ vpc = "idle"
    /\ vresults = <<>>
    /\ vexit = <<>>
    /\ verifications = 0
    /\ tampered = {}

NextVerify ==
    \/ VerifyStart
    \/ VerifyPackage
    \/ VerifyReturn
    \/ Tamper

SpecVerify == InitVerify /\ [][NextVerify]_vars

(***************************************************************************)
(* Specification of the version manager: its calls in any order on a       *)
(* directory without backups.                                              *)
(***************************************************************************)
InitVersion ==
    /\ BuildSystemIdle
    /\ MainIdle
    /\ LoadersIdle
    /\ pri = PriFiles("original", "absent", FALSE, "original")
    /\ VerifierIdle
    /\ batch = NoBatch
    /\ RegistryIdle
    /\ version_file \in {<<>>, Saved(DefaultVersion)}
    /\ config_tree = {}
    /\ backups = [n \in BackupNames |-> NoBackup]
    /\ round_trip = NoRoundTrip
    /\ last_call = NoCall

NextVersion ==
    \/ CreateBackup
    \/ UpdateVersion
    \/ RestoreBackup
    \/ DeleteBackup
    \/ EditConfig

SpecVersion == InitVersion /\ [][NextVersion]_vars

(***************************************************************************)
(* Predicates on graphs and orders.                                        *)
(***************************************************************************)
\* Every dependency named is a module of the graph.
KnownDeps(g) == \A m \in DOMAIN g : g[m] \subseteq DOMAIN g

\* The modules reachable from the set S along dependency edges, S included.
RECURSIVE Closure(_, _)
Closure(g, S) ==
    LET T == S \cup UNION {g[m] \cap DOMAIN g : m \in S}
    IN  IF T = S THEN S ELSE Closure(g, T)

\* Some module depends on itself, directly or through other modules.
HasCycle(g) == \E m \in DOMAIN g : m \in Closure(g, g[m] \cap DOMAIN g)

\* order holds every element of S exactly once and nothing else.
IsPermutation(order, S) == Len(order) = Cardinality(S) /\ Range(order) = S

\* d stands before m in order.
Precedes(order, d, m) ==
    \E i, j \in 1..Len(order) : i < j /\ order[i] = d /\ order[j] = m

\* Every dependency stands before its dependent.
DepsPrecede(order, g) ==
    \A m \in DOMAIN g : \A d \in g[m] : Precedes(order, d, m)

(***************************************************************************)
(* Claims about calculate_build_order (SpecOrder).                         *)
(***************************************************************************)
\* C1: for every acyclic dependency graph (its dependencies all modules of
\* the graph), calculate_build_order returns, without raising, an order that
\* holds every module exactly once and in which every dependency of a module
\* stands before that module.
C1_AcyclicOrder ==
    (KnownDeps(dependencies) /\ ~HasCycle(dependencies)) =>
        /\ pc # "raised"
        /\ pc = "returned" =>
              /\ IsPermutation(build_order, DOMAIN dependencies)
              /\ DepsPrecede(build_order, dependencies)

\* An acyclic graph with a module of two dependencies has been ordered.
C1_Witness ==
    /\ pc = "returned"
    /\ KnownDeps(dependencies) /\ ~HasCycle(dependencies)
    /\ \E m \in DOMAIN dependencies : Cardinality(dependencies[m]) = 2

\* C3: for every graph with a cycle, calculate_build_order still returns a
\* sequence that holds every module exactly once, and in it some dependency
\* d of some module m does not stand before m.
C3_CyclicOrder ==
    HasCycle(dependencies) =>
        /\ pc # "raised"
        /\ pc = "returned" =>
              /\ IsPermutation(build_order, DOMAIN dependencies)
              /\ \E m \in DOMAIN dependencies : \E d \in dependencies[m] :
                    ~Precedes(build_order, d, m)

\* A graph with a cycle through two or more modules has been ordered, with a
\* deadlock broken on the way.
C3_Witness ==
    /\ pc = "returned"
    /\ HasCycle(dependencies)
    /\ \A m \in DOMAIN dependencies : m \notin dependencies[m]
    /\ warnings > 0

\* C4: every iteration of the loop retires exactly one module, from the
\* ready set or by force, so the loop ends after exactly as many iterations
\* as the graph has modules.
C4_OneModulePerIteration ==
    /\ pc # "raised"
    /\ pc \in {"calc_loop", "returned"} =>
          /\ Len(build_order) = iterations
          /\ Cardinality(remaining_modules) =
                 Cardinality(DOMAIN dependencies) - iterations
          /\ Range(build_order) \cap remaining_modules = {}
          /\ pc = "returned" => iterations = Cardinality(DOMAIN dependencies)

\* A run has ended in which one module was forced and another came from a
\* ready set that held more than one module.
C4_Witness ==
    /\ pc = "returned"
    /\ forced # {}
    /\ forced # Range(build_order)
    /\ iterations = Cardinality(DOMAIN dependencies)

C6_PreferenceTieBreak ==
    (pc \in {"calc_loop", "returned"} /\ iterations > 0 /\ lastReady # <<>>) =>
        LET m == build_order[Len(build_order)]
            named == {r \in Range(lastReady) : r \in Range(config_order)}
        IN  /\ m \in Range(lastReady)
            /\ IF named # {}
               THEN /\ m \in named
                    /\ \A r \in named :
                          FirstPos(config_order, m) <= FirstPos(config_order, r)
               ELSE m = lastReady[1]

(***************************************************************************)
(* Claims about the program (Spec).                                        *)
(***************************************************************************)
\* C2: the build order that is computed and built covers exactly the enabled
\* modules: no module with enabled=false is in it, every module with
\* enabled=true is.
C2_OrderCoversEnabled ==
    pc \in {"build_loop", "build_end"} =>
        Range(build_order) = EnabledModules(build_config)

\* C7: the dependency graph the scheduler uses is well formed: every name
\* listed as a dependency is a module of the graph, and no module lists
\* itself.
C7_GraphWellFormed ==
    \A m \in DOMAIN dependencies : \A d \in dependencies[m] :
        d \in DOMAIN dependencies /\ d # m

\* The scheduler has ordered the graph that create_dependency_graph returned.
C7_Witness ==
    /\ pc = "build_loop"
    /\ DOMAIN dependencies = Range(GraphKeyOrder)
    /\ Len(build_order) = Len(GraphKeyOrder)

\* C8: full_build runs the seven steps in their fixed order and is
\* fail-fast: the steps that have run form a prefix of that order, no step
\* runs after a step that failed, and the outcome is fail as soon as a step
\* has failed (and pass only after all seven passed).
C8_FailFast ==
    /\ Len(executed) <= Len(StepNames)
    /\ \A i \in 1..Len(executed) : executed[i].name = StepNames[i]
    /\ \A i \in 1..(Len(executed) - 1) : executed[i].ok
    /\ (\E i \in 1..Len(executed) : ~executed[i].ok) <=> result = "fail"
    /\ result = "fail" => pc = "done"
    /\ pc \in {"step", "calc_loop", "build_loop", "build_end"} =>
          /\ step = Len(executed) + 1
          /\ \A i \in 1..Len(executed) : executed[i].ok
    /\ result = "pass" <=>
          (Len(executed) = Len(StepNames) /\ \A i \in 1..Len(executed) : executed[i].ok)

\* A run has failed at Run Tests after three steps passed.
C8_Witness ==
    /\ result = "fail"
    /\ Len(executed) = 4
    /\ ~executed[4].ok

\* C10: build_all_modules builds the modules in build order and stops at the
\* first module that fails: nothing is built after it, successful_builds is
\* the number of modules before it, and the stage succeeds exactly when all
\* modules of the order were built.
C10_BuildAllStopsAtFirstFailure ==
    /\ Len(attempted) <= Len(build_order)
    /\ \A i \in 1..Len(attempted) : attempted[i].module = build_order[i]
    /\ \A i \in 1..(Len(attempted) - 1) : attempted[i].ok
    /\ successful_builds = Cardinality({i \in 1..Len(attempted) : attempted[i].ok})
    /\ (\E i \in 1..Len(attempted) : ~attempted[i].ok) =>
          successful_builds = Len(attempted) - 1
    /\ build_all_result # "none" =>
          /\ build_all_result = "pass" <=>
                /\ Len(attempted) = Len(build_order)
                /\ \A i \in 1..Len(attempted) : attempted[i].ok
          /\ Len(executed) >= 3
          /\ executed[3].ok <=> build_all_result = "pass"

\* build_all_modules has stopped at the fourth module of the order.
C10_Witness ==
    /\ build_all_result = "fail"
    /\ Len(attempted) = 4
    /\ successful_builds = 3

(***************************************************************************)
(* Claims about the install and uninstall tools (SpecRegistry).            *)
(***************************************************************************)
\* The command of p wrote event e.
Wrote(p, e) == \E i \in 1..Len(trace[p]) : trace[p][i] = e

\* The record the installer writes for a package.
RecordOf(pkg) == RegistryWith(NoModules, validate_module(pkg))[pkg.name]

\* The modules of the registry document on disk, as a reader loads them.
OnDisk == load_registry(regDisk).modules

\* C11: uninstall(A, force=false) of an installed module A that another
\* installed module declares as a dependency ends with BlockedByDependents
\* and removes no file and no registry record.
C11_UninstallBlocked ==
    \A p \in procs :
        (/\ op[p].kind = "uninstall"
         /\ op[p].wasInstalled
         /\ ~op[p].force
         /\ op[p].dependents # {})
        => (outcome[p] = "BlockedByDependents" /\ trace[p] = <<>>)

\* C12: uninstall(A, force=true) of an installed module A is not refused,
\* whatever depends on A: it succeeds unless an I/O error or a kill stops
\* it, and after its success the registry has no record for A.
C12_ForceUninstallSucceeds ==
    \A p \in procs :
        (op[p].kind = "uninstall" /\ op[p].wasInstalled /\ op[p].force)
        => /\ \/ outcome[p] \in {"running", "success"}
              \/ faults > 0 /\ outcome[p] \in {"IOError", "crashed"}
           /\ outcome[p] = "success"
                 => regDisk.state = "valid" /\ op[p].name \notin DOMAIN OnDisk

C12_Witness ==
    \E p \in procs :
        /\ op[p].kind = "uninstall" /\ op[p].force /\ op[p].wasInstalled
        /\ op[p].dependents # {}
        /\ outcome[p] = "success"
        /\ faults = 0

\* C13: after install(M) and then uninstall(M) the registry has no record
\* for M and none of the files that install(M) copied is on disk, and
\* verify(M) then returns success.
C13_RoundTrip ==
    chain.stage \in {"uninstalled", "verified", "not_verified"}
    => /\ chain.name \notin DOMAIN OnDisk
       /\ chain.paths \cap fs = {}
       /\ chain.stage # "not_verified"

\* C14: install of a module that has a registry record ends, with
\* force=false, with AlreadyInstalled and without a write to the registry or
\* to the installed files; with force=true it is not rejected and its
\* success leaves the record of the new package.
C14_AlreadyInstalled ==
    \A p \in procs :
        (op[p].kind = "install" /\ op[p].pkg.defect = "none" /\ op[p].wasInstalled)
        => /\ ~op[p].force => (outcome[p] = "AlreadyInstalled" /\ trace[p] = <<>>)
           /\ op[p].force
                 => /\ outcome[p] # "AlreadyInstalled"
                    /\ outcome[p] = "success"
                          => /\ op[p].name \in DOMAIN OnDisk
                             /\ OnDisk[op[p].name] = RecordOf(op[p].pkg)

C14_Witness ==
    \E p \in procs :
        /\ op[p].kind = "install" /\ op[p].wasInstalled /\ ~op[p].force
        /\ outcome[p] = "AlreadyInstalled"
        /\ op[p].name \in DOMAIN OnDisk
        /\ OnDisk[op[p].name] # RecordOf(op[p].pkg)

\* C15: uninstall of a module that has no record in a registry that parses
\* ends with NotInstalled for every value of force, runs no hook, deletes no
\* file and does not write the registry.
C15_NotInstalled ==
    \A p \in procs :
        (op[p].kind = "uninstall" /\ ~op[p].wasInstalled
         /\ outcome[p] # "RegistryCorruption")
        => (outcome[p] = "NotInstalled" /\ trace[p] = <<>>)

C15_Witness ==
    \E p \in procs :
        /\ op[p].kind = "uninstall" /\ op[p].force /\ ~op[p].wasInstalled
        /\ outcome[p] = "NotInstalled"
        /\ fs # {}

\* C16: install copies the files, then writes the record, then runs the
\* post-install script; when the script fails the install still succeeds,
\* and the record and the copied files stay.
C16_InstallOrder ==
    \A p \in procs :
        op[p].kind = "install"
        => /\ trace[p] \in {<<>>, <<"copy">>, <<"copy", "save">>,
                             <<"copy", "save", "hook">>,
                             <<"copy", "save", "hook_failed">>}
           /\ (Wrote(p, "hook") \/ Wrote(p, "hook_failed"))
                 => /\ outcome[p] = "success"
                    /\ op[p].name \in DOMAIN OnDisk
                    /\ OnDisk[op[p].name] = RecordOf(op[p].pkg)
                    /\ Range(InstallTargets(validate_module(op[p].pkg), op[p].pkg))
                          \subseteq fs

C16_Witness ==
    \E p \in procs :
        /\ op[p].kind = "install"
        /\ trace[p] = <<"copy", "save", "hook_failed">>
        /\ outcome[p] = "success"

\* C17: the registry document on disk is never seen partly written: when no
\* process is inside a save (one that was has been killed), a reader finds
\* a complete document.
C17_NeverPartial ==
    (\A p \in procs : rpc[p] # "save_write") => regDisk.state # "partial"

\* C19: verify(name) returns success exactly when the registry has no
\* record for name and none of the paths that installations of the module
\* put under the prefix exists.
C19_VerifyExact ==
    \A p \in procs :
        (op[p].kind = "verify" /\ outcome[p] \in {"verified", "not_verified"})
        => (outcome[p] = "verified"
              <=> /\ op[p].name \notin DOMAIN OnDisk
                  /\ installedPaths[op[p].name] \cap fs = {})

\* C20: when the registry document does not parse, a command that starts
\* ends at once with a failure outcome, copies and deletes no file and does
\* not write the registry document.
C20_CorruptRegistryAborts ==
    [][(regDisk.state = "partial" /\ \A p \in procs : rpc[p] = "idle")
       => /\ regDisk' = regDisk
          /\ fs' = fs
          /\ \A p \in procs :
                /\ rpc'[p] = "idle"
                /\ outcome'[p] # outcome[p] \/ op'[p] # op[p]
                      => outcome'[p] \in {"RegistryCorruption", "PackageError"}]_vars

C20_Witness ==
    \E p \in procs :
        /\ op[p].kind = "install" /\ op[p].force
        /\ outcome[p] = "RegistryCorruption"
        /\ regDisk.state = "partial"
        /\ trace[p] = <<>>

(***************************************************************************)
(* Claims about two concurrent tool processes (SpecRegistry2).             *)
(***************************************************************************)
\* The document holds the change of command o.
Reflects(o, modules) ==
    IF o.kind = "install"
    THEN o.name \in DOMAIN modules /\ modules[o.name] = RecordOf(o.pkg)
    ELSE o.name \notin DOMAIN modules

\* Both processes have installed or uninstalled, on different modules, with
\* success.
BothSucceeded ==
    /\ \A p \in Procs : op[p].kind \in {"install", "uninstall"} /\ outcome[p] = "success"
    /\ op[1].name # op[2].name

\* C18: two processes that change the same registry document without mutual
\* exclusion can lose an update: when both commands succeeded and the
\* document lacks the change of one, the other had loaded the document
\* before that change was saved, and the document holds the other's change.
C18_LostUpdate ==
    BothSucceeded
    => /\ regDisk.state = "valid"
       /\ \A p, q \in Procs :
             (p # q /\ ~Reflects(op[p], OnDisk))
             => (~Reflects(op[p], loaded[q]) /\ Reflects(op[q], OnDisk))

C18_Witness ==
    /\ BothSucceeded
    /\ \E p, q \in Procs :
          /\ p # q
          /\ ~Reflects(op[p], OnDisk)
          /\ Reflects(op[q], OnDisk)

(***************************************************************************)
(* Claims about the configuration loaders (SpecConfig).                    *)
(***************************************************************************)
\* r is base with update merged in: the keys of both; a key the update does
\* not name keeps the value of base; where both values are mappings r
\* holds their merge; in every other case r holds the value of update.
RECURSIVE IsMergeOf(_, _, _)
IsMergeOf(r, base, update) ==
    /\ DOMAIN r = DOMAIN base \cup DOMAIN update
    /\ \A key \in DOMAIN base \ DOMAIN update : r[key] = base[key]
    /\ \A key \in DOMAIN update :
          IF key \in DOMAIN base /\ IsMap(base[key]) /\ IsMap(update[key])
          THEN IsMap(r[key]) /\ IsMergeOf(r[key][2], base[key][2], update[key][2])
          ELSE r[key] = update[key]

\* The build configuration has been loaded from a file that parses.
MergedFromFile ==
    cfgLoaded.loader = "build" /\ cfgLoaded.state = "loaded" /\ cfgFile.state = "valid"

\* C21: deep-merge is idempotent: merging the user document into the
\* merged configuration again gives the merged configuration.
C21_MergeIdempotent == cfgAgain.done => cfgAgain.config = cfgLoaded.config

C21_Witness ==
    /\ cfgAgain.done
    /\ cfgBase = [modules |-> Map([core |-> List(<<1, 2>>), utils |-> Scalar(1)])]
    /\ cfgFile.doc = [modules |-> Map([core |-> List(<<3>>)]), build_type |-> Scalar(2)]
    /\ cfgAgain.config =
          [modules |-> Map([core |-> List(<<3>>), utils |-> Scalar(1)]),
           build_type |-> Scalar(2)]

\* C22: deep-merge recurses only where the base value and the user value
\* at a key are both mappings, keeping the keys of the base mapping that
\* the user mapping does not name; in every other case (lists, a mapping
\* meeting a non-mapping) the user value replaces the base value.
C22_MergeShape == MergedFromFile => IsMergeOf(cfgLoaded.config, cfgBase, cfgFile.doc)

C22_Witness ==
    /\ MergedFromFile
    /\ cfgBase = [modules |-> Map([core |-> Scalar(1), utils |-> Scalar(2)]),
                  build_type |-> List(<<1, 2>>)]
    /\ cfgFile.doc = [modules |-> Map([utils |-> Scalar(1)]), build_type |-> List(<<3>>)]
    /\ cfgLoaded.config =
          [modules |-> Map([core |-> Scalar(1), utils |-> Scalar(1)]),
           build_type |-> List(<<3>>)]

\* C23: when the user configuration file does not parse, the loader does
\* not abort: it returns the default configuration unchanged and prints a
\* warning.
C23_UnparsableFallsBack ==
    (cfgFile.state = "unparsable" /\ cfgLoaded.state # "none")
    => /\ cfgLoaded.state = "loaded"
       /\ cfgLoaded.config = cfgBase
       /\ cfgLoaded.warned

C23_Witness ==
    /\ cfgFile.state = "unparsable"
    /\ cfgLoaded.loader = "build"
    /\ cfgLoaded.state = "loaded"
    /\ cfgLoaded.warned
    /\ "modules" \in DOMAIN cfgLoaded.config

(***************************************************************************)
(* Claims about build_system.py main (Spec).                               *)
(***************************************************************************)
\* The Configure Modules step has returned.
Configured == \E i \in 1..Len(executed) : executed[i].name = "Configure Modules"

\* The modules named by JITSI_DISABLE_MODULES.
EnvDisabled == IF environ = Unset THEN {} ELSE Range(environ[1])

\* A part of the operation of the command has failed.
OperationFailed == IF command = "build" THEN result # "pass" ELSE op_failed

\* C24: a configuration in which a required module is disabled is rejected:
\* the pipeline never gets past Configure Modules with a required module
\* in the disabled set.
C24_RequiredNeverDisabled ==
    Configured
    => \A m \in DOMAIN build_config.modules :
          build_config.modules[m].required => build_config.modules[m].enabled

\* C29: a command exits with code 0 exactly when its operation succeeded,
\* and with code 1 when a part of it failed.
C29_ExitCodeMatches ==
    exit_code # <<>>
    => /\ exit_code = <<0>> <=> ~OperationFailed
       /\ exit_code = <<1>> <=> OperationFailed

\* C30: after Configure Modules the disabled-module set in the environment
\* is exactly the set of modules with enabled=false in the configuration,
\* whatever the process inherited.
C30_EnvironmentExact ==
    Configured => EnvDisabled = DOMAIN build_config.modules \ EnabledModules(build_config)

(***************************************************************************)
(* Claims about verify_packages.py (SpecVerify).                           *)
(***************************************************************************)
\* The finished part of the run reports error e for archive n.
Reported(n, e) ==
    \E i \in 1..Len(vresults) :
        vresults[i].package = n /\ e \in Range(vresults[i].errors)

\* C25: once the sidecar of an archive has been written, a change of the
\* archive's bytes makes the next verification report an integrity error
\* for that archive, and for no other archive of the directory.
C25_TamperReported ==
    vpc \in {"done", "raised"}
    => \A n \in DOMAIN archives : n \in tampered <=> Reported(n, "integrity")

\* C26: the sidecar of an archive is written only when none exists, with
\* the digest of the archive; an existing sidecar is never rewritten,
\* whether the comparison succeeds or fails.
C26_SidecarWrittenOnce ==
    [][\A n \in ArchiveNames :
          IF sidecars[n] # NoSidecar \/ n \notin DOMAIN archives
          THEN sidecars'[n] = sidecars[n]
          ELSE sidecars'[n] \in {NoSidecar,
                                  SidecarOf(calculate_file_hash(archives[n]), n)}]_vars

C26_Witness ==
    /\ vpc = "done"
    /\ \E n \in tampered :
          /\ Reported(n, "integrity")
          /\ ExpectedHash(sidecars[n]) # calculate_file_hash(archives[n])

\* C27: a run verifies every archive of the directory even when an earlier
\* one fails: one result per archive, and exit code 1 exactly when a
\* result failed.
C27_BatchCompletes ==
    vpc \in {"done", "raised"}
    => /\ Len(vresults) = Cardinality(DOMAIN archives)
       /\ vexit = <<1>> <=> \E i \in 1..Len(vresults) : ~vresults[i].success

(***************************************************************************)
(* Claims about uninstall_all_modules (SpecUninstallAll).                  *)
(***************************************************************************)
\* C28: uninstall-all, once confirmed or forced, attempts every module of
\* the registry in turn, goes on after a module's uninstall failed, and
\* returns success exactly when every one of the uninstalls succeeded.
C28_UninstallAllCompletes ==
    batch.state = "returned"
    => /\ Len(batch.attempts) = Len(batch.planned)
       /\ \A i \in 1..Len(batch.attempts) :
             /\ batch.attempts[i].name = batch.planned[i]
             /\ batch.attempts[i].ok => batch.planned[i] \notin DOMAIN OnDisk
       /\ batch.success <=> \A i \in 1..Len(batch.attempts) : batch.attempts[i].ok

C28_Witness ==
    /\ batch.state = "returned"
    /\ Len(batch.attempts) = Cardinality(RegistryModules)
    /\ ~batch.attempts[1].ok
    /\ batch.attempts[Len(batch.attempts)].ok
    /\ ~batch.success

(***************************************************************************)
(* Further claims about calculate_build_order.                             *)
(***************************************************************************)
\* C31: when the graph has a cycle, precedence violations are confined to
\* the force-selected modules: every module appended from a non-empty ready
\* set stands behind all of its dependencies, and every deadlock
\* force-selects exactly one module.
C31_ViolationsConfined ==
    (HasCycle(dependencies) /\ pc \in {"calc_loop", "returned"}) =>
        /\ \A m \in Range(build_order) \ forced :
              \A d \in dependencies[m] : Precedes(build_order, d, m)
        /\ forced \subseteq Range(build_order)
        /\ Cardinality(forced) = warnings
        /\ Len(build_order) = iterations

\* A cyclic graph has been ordered: a forced module stands before one of
\* its dependencies, and a module with a dependency came from a ready set.
C31_Witness ==
    /\ pc = "returned"
    /\ HasCycle(dependencies)
    /\ \E m \in forced : \E d \in dependencies[m] : ~Precedes(build_order, d, m)
    /\ \E m \in Range(build_order) \ forced : dependencies[m] # {}

\* The preference list names every module of the graph.
NamesEveryModule == DOMAIN dependencies \subseteq Range(config_order)

\* The returned order is the same under every iteration order of the set.
SameUnderEveryIteration ==
    \A o \in IterOrdersOf(dependencies) :
        calculate_build_order(dependencies, config_order, o) = build_order

\* The preference list is an order of all modules that respects the graph.
PreferenceRespectsGraph ==
    /\ IsPermutation(config_order, DOMAIN dependencies)
    /\ DepsPrecede(config_order, dependencies)

AllStepsPassed ==
    /\ Len(executed) = Len(StepNames)
    /\ \A i \in 1..Len(executed) : executed[i].ok

\* C33: full_build writes build_report.json only after all seven steps
\* have passed; a run that failed at a step has written no report.
C33_ReportOnlyAfterPass ==
    /\ report_written => (AllStepsPassed /\ result = "pass")
    /\ result = "fail" => ~report_written
    /\ result = "pass" => report_written

\* A run has passed all seven steps and has written the report.
C33_Witness ==
    /\ report_written
    /\ AllStepsPassed
    /\ exit_code = <<0>>

\* C34: Verify Packages fails whenever build/packages holds no package
\* archive, also when packaging is disabled and Create Packages was skipped
\* as a pass; full_build then stops at Verify Packages and Create
\* Distribution is never run.
C34_EmptyPackagesFailVerify ==
    (Len(executed) >= 6 /\ archives = NoArchives) =>
        /\ ~executed[6].ok
        /\ Len(executed) = 6
        /\ result = "fail"
        /\ pc = "done"
        /\ ~report_written

\* With packaging disabled Create Packages passed, and the tool found no
\* archive to verify.
C34_Witness ==
    /\ ~build_config.enable_packaging
    /\ archives = NoArchives
    /\ Len(executed) = 6
    /\ executed[5].ok
    /\ ~executed[6].ok
    /\ result = "fail"

(***************************************************************************)
(* Further claims about the install and uninstall tools (SpecRegistry).    *)
(***************************************************************************)
\* Process p is inside an uninstall command.
Uninstalling(p) == p \in procs /\ op[p].kind = "uninstall" /\ rpc[p] # "idle"

\* The modules the registry document on disk records.
Recorded == IF load_registry(regDisk).raised THEN {} ELSE DOMAIN OnDisk

\* C35: uninstall(M) leaves the installed files and the registry record of
\* every other installed module unchanged, also when M's name is part of
\* the name of a library or plugin file of another module.
C35_UninstallFrame ==
    [][\A p \in Procs : Uninstalling(p) =>
          \A n \in RegistryModules \ {op[p].name} :
              /\ n \in Recorded => (installedPaths[n] \cap fs) \subseteq fs'
              /\ (rpc[p] = "save_write" /\ rpc'[p] = "idle" /\ n \in DOMAIN loaded[p])
                    => /\ n \in DOMAIN regDisk'.modules
                       /\ regDisk'.modules[n] = loaded[p][n]]_vars

\* The installations that ended with a failure before update_registry.
FailedBeforeRecord == {"PackageError", "AlreadyInstalled", "IOError"}

\* C36: an install that fails at extraction, validation, the
\* already-installed check or file copying has not written the registry
\* document; the installer writes the document only after all files of the
\* module have been copied.
C36_InstallRecordsLast ==
    \A p \in Procs : op[p].kind = "install" =>
        /\ outcome[p] \in FailedBeforeRecord => ~Wrote(p, "save")
        /\ Wrote(p, "save") =>
              Range(InstallTargets(validate_module(op[p].pkg), op[p].pkg))
                  \subseteq installedPaths[op[p].name]

\* An installation has failed in the middle of its copies, on a prefix
\* without registry document.
C36_Witness ==
    \E p \in Procs :
        /\ op[p].kind = "install"
        /\ outcome[p] = "IOError"
        /\ Wrote(p, "copy")
        /\ regDisk = AbsentRegistry

\* C37: uninstall writes the registry only after remove_module_files has
\* deleted every file it targets; when the removal fails part-way the
\* command fails and the record of the module is still in the registry.
C37_UninstallRecordsLast ==
    \A p \in Procs : op[p].kind = "uninstall" =>
        /\ outcome[p] = "IOError" =>
              /\ ~Wrote(p, "save")
              /\ op[p].wasInstalled
              /\ op[p].name \in Recorded
        /\ Wrote(p, "save") => RemovalTargets(fs, op[p].name) = {<<>>}

\* An uninstall has failed after it deleted some of the files; the record
\* is on disk.
C37_Witness ==
    \E p \in Procs :
        /\ op[p].kind = "uninstall"
        /\ outcome[p] = "IOError"
        /\ Wrote(p, "remove")
        /\ op[p].name \in Recorded
        /\ RemovalTargets(fs, op[p].name) # {<<>>}

(***************************************************************************)
(* Claim about the files of configure_modules (SpecConfigure).             *)
(***************************************************************************)
\* C38: after any number of runs of Configure Modules with an optimized
\* modules file present, modules.pri.backup holds what modules.pri held
\* before the first run; no later run replaces it with the optimized copy.
C38_BackupKeepsOriginal ==
    (pri.optimized /\ pri.target = "optimized") =>
        /\ pri.backup = pri.first
        /\ pri.backup # "optimized"

(***************************************************************************)
(* Claim about the backups of the version manager (SpecVersion).           *)
(***************************************************************************)
\* C39: create_backup(n), then update_version calls, then restore_backup(n)
\* leaves the version information as it was when create_backup(n) ran, for
\* every name n, pre_restore_backup included; restore_backup of a name
\* without backup returns failure and changes nothing.
C39_BackupRoundTrip ==
    /\ round_trip.stage = "restored" => version_file = Saved(round_trip.info)
    /\ last_call.op = "restore_missing" => ~last_call.ok /\ ~last_call.changed

====
